---- MODULE Spec2Model ----
(***************************************************************************)
(* A model of @fastify/sse (src/index.js, second definition of the plugin, *)
(* lines 397-874): one SSEContext driving one raw HTTP response (the       *)
(* sink), the sseHandler wrapper around the route handler, and the sink's  *)
(* own notifications (close, error, drain) and the heartbeat timer.        *)
(*                                                                         *)
(* The context and the raw response are kept in one record `S` so that the *)
(* methods of SSEContext are operators from state to state that compose    *)
(* the way the methods call each other.                                    *)
(***************************************************************************)
EXTENDS Integers, Sequences, FiniteSets, TLC

(***************************************************************************)
(* Bounds of the model.                                                    *)
(***************************************************************************)
MaxCalls == 2        \* sends and other operations on the context
MaxHeaderSets == 1   \* header settings made by the handler
MaxCallbacks == 2    \* callbacks registered with onClose
MaxTicks == 2        \* heartbeat timer firings
MaxErrors == 1       \* 'error' notifications of the sink
MaxItems == 2        \* items a source (async sequence or Readable) yields
MaxReplays == 2      \* calls of replay
MaxTextLen == 5      \* characters of a string or buffer given to the encoder

(***************************************************************************)
(* Header names and values.                                                *)
(***************************************************************************)
HeaderNames == {"content-type", "cache-control", "connection", "x-accel-buffering", "x-custom"}

NoHeaders == [n \in HeaderNames |-> ""]

\* the defaults without the proxy-buffering header
DefaultHeadersNoAccel ==
  [n \in HeaderNames |->
     CASE n = "content-type" -> "text/event-stream"
       [] n = "cache-control" -> "no-cache"
       [] n = "connection" -> "keep-alive"
       [] OTHER -> ""]

\* sseHandler: reply.raw.setHeader(...) x 4
DefaultHeaders ==
  [n \in HeaderNames |->
     CASE n = "content-type" -> "text/event-stream"
       [] n = "cache-control" -> "no-cache"
       [] n = "connection" -> "keep-alive"
       [] n = "x-accel-buffering" -> "no"
       [] OTHER -> ""]

\* headers a preHandler hook may have put on the reply before sseHandler runs
PreHandlerHeaders == {NoHeaders, [NoHeaders EXCEPT !["x-custom"] = "pre"]}

\* header settings the handler tries: <<name, value>>
HandlerHeaders ==
  { <<"x-custom", "a">>, <<"content-type", "text/event-stream">>,
    <<"cache-control", "max-age=60">> }

\* header settings the handler tries on the raw response
RawHandlerHeaders == { <<"connection", "close">> }

NoHead == [status |-> 0, headers |-> NoHeaders]

(***************************************************************************)
(* Error codes of sink and source failures.                                *)
(***************************************************************************)
ErrorCodes == {"UND_ERR_ABORTED", "ECONNRESET", "EPIPE", "EOTHER"}

\* constructor, reply.raw.on('error'): the codes taken as a client disconnect
rawErrorIsDisconnect(code) ==
  code = "UND_ERR_ABORTED" \/ code = "ECONNRESET" \/ code = "EPIPE"

\* send, catch around pipeline()
pipelineErrorIsDisconnect(code) ==
  code = "UND_ERR_ABORTED" \/ code = "ECONNRESET" \/ code = "EPIPE"

\* the test of onError without EPIPE
writeErrorIsDisconnectNoEpipe(code) ==
  code = "UND_ERR_ABORTED" \/ code = "ECONNRESET"

\* writeToStream, onError
writeErrorIsDisconnect(code) ==
  code = "UND_ERR_ABORTED" \/ code = "ECONNRESET" \/ code = "EPIPE"

(***************************************************************************)
(* Sources handed to send(): the properties the dispatcher looks at.       *)
(***************************************************************************)
Shape(str, buf, obj, data, readable, iter) ==
  [isString |-> str, isBuffer |-> buf, isObject |-> obj, hasData |-> data,
   isReadable |-> readable, hasAsyncIterator |-> iter]

StringSource == Shape(TRUE, FALSE, FALSE, FALSE, FALSE, FALSE)
BufferSource == Shape(FALSE, TRUE, TRUE, FALSE, FALSE, FALSE)
MessageSource == Shape(FALSE, FALSE, TRUE, TRUE, FALSE, FALSE)
ReadableSource == Shape(FALSE, FALSE, TRUE, FALSE, TRUE, TRUE)
GeneratorSource == Shape(FALSE, FALSE, TRUE, FALSE, FALSE, TRUE)
NumberSource == Shape(FALSE, FALSE, FALSE, FALSE, FALSE, FALSE)
PlainObjectSource == Shape(FALSE, FALSE, TRUE, FALSE, FALSE, FALSE)

Sources ==
  {StringSource, BufferSource, MessageSource, ReadableSource, GeneratorSource,
   NumberSource, PlainObjectSource}

\* isSSEMessage without the test for a data key
isSSEMessageAnyObject(src) == src.isObject

\* SSEContext.isSSEMessage
isSSEMessage(src) == src.isObject /\ src.hasData

\* SSEContext.isAsyncIterable
isAsyncIterable(src) == src.hasAsyncIterator

\* SSEContext.send: the order of the three tests
Classify(src) ==
  IF src.isString \/ src.isBuffer \/ isSSEMessage(src) THEN "message"
  ELSE IF src.isReadable THEN "stream"
  ELSE IF isAsyncIterable(src) THEN "iterable"
  ELSE "invalid"

(***************************************************************************)
(* The message encoder, formatSSEMessage. A text is a sequence of          *)
(* characters, LF the line break; a field prefix such as "data: " counts   *)
(* as one character.                                                       *)
(***************************************************************************)
LF == "LF"
QUOTE == "QUOTE"
BSL == "BSL"

\* the characters of the strings handed to the encoder
Chars == {"x", LF, QUOTE}

\* the bytes of a buffer: the same characters, and a byte that is not UTF-8
Bytes == Chars \cup {"0xFF"}

\* JavaScript values: undefined, null, a string, a number, an object
Value(kind, text, num) == [kind |-> kind, text |-> text, num |-> num]
Undefined == Value("undefined", <<>>, 0)
Null == Value("null", <<>>, 0)
Str(t) == Value("string", t, 0)
Num(n) == Value("number", <<>>, n)
Obj == Value("object", <<>>, 0)

\* if (message.id), if (message.event), if (message.retry)
truthy(v) ==
  CASE v.kind = "string" -> v.text # <<>>
    [] v.kind = "number" -> v.num # 0
    [] v.kind = "object" -> TRUE
    [] OTHER -> FALSE

\* the decimal digits of a natural number
RECURSIVE digits(_)
digits(n) == IF n < 10 THEN <<ToString(n)>> ELSE digits(n \div 10) \o <<ToString(n % 10)>>

\* `${value}` in a template literal
toText(v) ==
  CASE v.kind = "string" -> v.text
    [] v.kind = "number" -> digits(v.num)
    [] v.kind = "object" -> <<"[object Object]">>
    [] OTHER -> <<v.kind>>

\* JSON.stringify of a string, character by character
RECURSIVE jsonEscape(_)
jsonEscape(t) ==
  IF t = <<>> THEN <<>>
  ELSE (CASE Head(t) = LF -> <<BSL, "n">>
          [] Head(t) = QUOTE -> <<BSL, QUOTE>>
          [] Head(t) = BSL -> <<BSL, BSL>>
          [] OTHER -> <<Head(t)>>) \o jsonEscape(Tail(t))

\* a JSON encoder that leaves line breaks as they are
jsonStringifyKeepsBreaks(v) ==
  CASE v.kind = "string" -> <<QUOTE>> \o v.text \o <<QUOTE>>
    [] v.kind = "number" -> digits(v.num)
    [] v.kind = "object" -> <<"{", "}">>
    [] OTHER -> <<"null">>

\* JSON.stringify, the default serializer
jsonStringify(v) ==
  CASE v.kind = "string" -> <<QUOTE>> \o jsonEscape(v.text) \o <<QUOTE>>
    [] v.kind = "number" -> digits(v.num)
    [] v.kind = "object" -> <<"{", "}">>
    [] OTHER -> <<"null">>

\* the serializer of the plugin (JSON.stringify) or of the route (String)
Serializers == {"JSON.stringify", "String"}

\* serializer(message.data)
serialize(serializer, v) ==
  IF serializer = "JSON.stringify" THEN jsonStringify(v) ELSE toText(v)

\* String.prototype.split('\n')
RECURSIVE split(_)
split(t) ==
  IF \A i \in 1..Len(t) : t[i] # LF THEN <<t>>
  ELSE LET i == CHOOSE k \in 1..Len(t) : t[k] = LF /\ \A j \in 1..(k - 1) : t[j] # LF
       IN <<SubSeq(t, 1, i - 1)>> \o split(SubSeq(t, i + 1, Len(t)))

\* message.toString('utf-8')
bufferToString(bytes) ==
  [i \in 1..Len(bytes) |-> IF bytes[i] = "0xFF" THEN "U+FFFD" ELSE bytes[i]]

\* for (const line of ...) payload += `data: ${line}\n`
RECURSIVE dataLines(_)
dataLines(segments) ==
  IF segments = <<>> THEN <<>>
  ELSE <<"data: ">> \o Head(segments) \o <<LF>> \o dataLines(Tail(segments))

\* what the encoder is given: a string, a buffer, or an object
StringPayload(t) ==
  [type |-> "string", text |-> t, id |-> Undefined, event |-> Undefined,
   data |-> Undefined, retry |-> Undefined]
BufferPayload(b) ==
  [type |-> "buffer", text |-> b, id |-> Undefined, event |-> Undefined,
   data |-> Undefined, retry |-> Undefined]
Message(id, event, data, retry) ==
  [type |-> "object", text |-> <<>>, id |-> id, event |-> event, data |-> data,
   retry |-> retry]

\* if (message.id) payload += `id: ${message.id}\n`
idLine(message) ==
  IF truthy(message.id) THEN <<"id: ">> \o toText(message.id) \o <<LF>> ELSE <<>>

\* if (message.event) payload += `event: ${message.event}\n`
eventLine(message) ==
  IF truthy(message.event) THEN <<"event: ">> \o toText(message.event) \o <<LF>> ELSE <<>>

\* if (message.data !== undefined) { serialize, split, one data line each }
dataField(message, serializer) ==
  IF message.data.kind # "undefined"
  THEN dataLines(split(serialize(serializer, message.data)))
  ELSE <<>>

\* a retry line for every retry that is set, 0 included
retryLineWhenSet(message) ==
  IF message.retry.kind # "undefined"
  THEN <<"retry: ">> \o toText(message.retry) \o <<LF>> ELSE <<>>

\* if (message.retry) payload += `retry: ${message.retry}\n`
retryLine(message) ==
  IF truthy(message.retry) THEN <<"retry: ">> \o toText(message.retry) \o <<LF>> ELSE <<>>

\* an encoder that runs the serializer on strings and buffers too
formatSerializesAll(message, serializer) ==
  LET payload ==
        IF message.type = "string"
        THEN dataLines(split(serialize(serializer, Str(message.text))))
        ELSE IF message.type = "buffer"
        THEN dataLines(split(serialize(serializer, Str(bufferToString(message.text)))))
        ELSE idLine(message) \o eventLine(message)
               \o dataField(message, serializer) \o retryLine(message)
  IN IF payload # <<>> THEN payload \o <<LF>> ELSE payload

\* formatSSEMessage
formatSSEMessage(message, serializer) ==
  LET payload ==
        IF message.type = "string"
        THEN dataLines(split(message.text))
        ELSE IF message.type = "buffer"
        THEN dataLines(split(bufferToString(message.text)))
        ELSE idLine(message) \o eventLine(message)
               \o dataField(message, serializer) \o retryLine(message)
  IN IF payload # <<>> THEN payload \o <<LF>> ELSE payload

\* the inputs of the encoder
TextsOver(chars, n) == UNION {[1..k -> chars] : k \in 0..n}
Ids == {Undefined, Str(<<>>), Str(<<"x">>), Str(<<QUOTE>>)}
Events == {Undefined, Str(<<>>), Str(<<"x">>)}
Retries == {Undefined, Num(0), Num(1000)}
Datas(n) == {Undefined, Null, Num(0), Obj} \cup {Str(t) : t \in TextsOver(Chars, n)}
Payloads(n) ==
  {StringPayload(t) : t \in TextsOver(Chars, n)}
    \cup {BufferPayload(b) : b \in TextsOver(Bytes, n)}
    \cup {Message(id, event, data, retry) :
            id \in Ids, event \in Events, data \in Datas(n), retry \in Retries}

(***************************************************************************)
(* State.                                                                  *)
(***************************************************************************)
VARIABLES
  S,          \* the SSEContext and the raw response it writes to
  accept,     \* request.headers.accept, as the sequence of its parts
  options,    \* plugin option heartbeatInterval and route option heartbeat
  lastEventId,\* SSEContext._lastEventId
  handler,    \* sseHandler: [st, err]
  iter,       \* send(asyncIterable) in progress: [st, n, k]
  pipe,       \* send(Readable) in progress: [st, n, k, wait]
  transform,  \* a transform returned by stream() exists
  calls,      \* the operations issued so far: [op, out], out kept up to date
  replay,     \* replay(callback): calls, callback invocations, promise, callback
  enc,        \* the encoder: idle, or done with [message, serializer, payload]
  nsets,      \* header settings made by the handler so far
  nticks,     \* heartbeat timer firings so far
  nerrors     \* sink 'error' notifications so far

env == <<nsets, nticks, nerrors>>

\* what is fixed when the request arrives
request == <<accept, options, lastEventId>>

vars == <<S, accept, options, lastEventId, handler, iter, pipe, transform, calls, replay, enc, nsets, nticks, nerrors>>

(***************************************************************************)
(* The raw response (reply.raw), as far as the context uses it.            *)
(***************************************************************************)
\* http.ServerResponse: the header block is on the wire after writeHead() or,
\* implicitly, after end()
rawHeadersFlushed(s) == s.headCount > 0 \/ s.endCount > 0

\* a write that puts the chunk ahead of what the response already holds
rawWritePrepend(s, rec, canWrite) ==
  IF s.endCount > 0 \/ s.sinkClosed
  THEN [s EXCEPT !.lateWrites = @ + 1]
  ELSE [s EXCEPT !.sinkLog = <<rec>> \o @, !.needDrain = @ \/ ~canWrite]

\* reply.raw.write(data): the chunk is appended to the response unless it was
\* ended or closed; canWrite = FALSE asks the writer to wait for 'drain'
rawWrite(s, rec, canWrite) ==
  IF s.endCount > 0 \/ s.sinkClosed
  THEN [s EXCEPT !.lateWrites = @ + 1]
  ELSE [s EXCEPT !.sinkLog = Append(@, rec), !.needDrain = @ \/ ~canWrite]

\* the values write() can return: FALSE for as long as a drain is owed
WriteReturns(s) == IF s.needDrain THEN {FALSE} ELSE BOOLEAN

(***************************************************************************)
(* SSEContext: methods.                                                    *)
(***************************************************************************)
\* sendHeaders throws ERR_HTTP_HEADERS_SENT when the response was ended
\* before the context sent the headers itself
sendHeadersThrows(s) == ~s.headersSent /\ rawHeadersFlushed(s)

\* sendHeaders without the _headersSent test
sendHeadersUnguarded(s) ==
  LET raw == [n \in HeaderNames |->
                IF s.replyHeaders[n] # "" THEN s.replyHeaders[n] ELSE s.rawHeaders[n]]
  IN [s EXCEPT !.rawHeaders = raw,
               !.headBlock = [status |-> 200, headers |-> raw],
               !.headCount = @ + 1,
               !.headersSent = TRUE]

\* sendHeaders without the transfer of the reply's headers
sendHeadersNoTransfer(s) ==
  IF ~s.headersSent
  THEN [s EXCEPT !.headBlock = [status |-> 200, headers |-> s.rawHeaders],
                 !.headCount = @ + 1,
                 !.headersSent = TRUE]
  ELSE s

\* SSEContext.sendHeaders
sendHeaders(s) ==
  IF ~s.headersSent
  THEN LET raw == [n \in HeaderNames |->
                     IF s.replyHeaders[n] # "" THEN s.replyHeaders[n] ELSE s.rawHeaders[n]]
       IN [s EXCEPT !.rawHeaders = raw,
                    !.headBlock = [status |-> 200, headers |-> raw],
                    !.headCount = @ + 1,
                    !.headersSent = TRUE]
  ELSE s

\* stopHeartbeat that leaves the timer running
stopHeartbeatKeeps(s) == s

\* SSEContext.stopHeartbeat
stopHeartbeat(s) ==
  IF s.heartbeatTimer THEN [s EXCEPT !.heartbeatTimer = FALSE] ELSE s

\* one entry of cbLog: callback cb ran, and what it could observe
Ran(s, cb) ==
  [cb |-> cb, connected |-> s.isConnected, timer |-> s.heartbeatTimer,
   ended |-> s.endCount > 0]

\* the position of the first callback of cbs that throws, 0 if none does
RECURSIVE firstThrower(_, _)
firstThrower(cbs, i) ==
  IF i > Len(cbs) THEN 0
  ELSE IF cbs[i].throws THEN i
  ELSE firstThrower(cbs, i + 1)

\* the loop without try/catch: it stops at the first callback that throws,
\* and the exception escapes
runCallbacksNoCatch(cbs) ==
  LET f == firstThrower(cbs, 1)
  IN IF f = 0 THEN [ran |-> cbs, escaped |-> FALSE]
     ELSE [ran |-> SubSeq(cbs, 1, f), escaped |-> TRUE]

\* the loop in registration order that calls them last first
runCallbacksReversed(cbs) ==
  [ran |-> [i \in 1..Len(cbs) |-> cbs[Len(cbs) + 1 - i]], escaped |-> FALSE]

\* cleanup, the loop over closeCallbacks: each call is inside try/catch, so
\* every callback runs, in the order of the list, and no exception escapes
runCallbacks(cbs) == [ran |-> cbs, escaped |-> FALSE]

\* a cleanup that does not forget the callbacks it has run
cleanupKeepsCallbacks(s) ==
  LET s1 == stopHeartbeat(s)
      r == runCallbacks(s1.closeCallbacks)
      ran == [i \in 1..Len(r.ran) |-> Ran(s1, r.ran[i])]
  IN [s1 EXCEPT !.cbLog = @ \o ran]

\* a cleanup that runs the callbacks and leaves the timer alone
cleanupKeepsTimer(s) ==
  LET r == runCallbacks(s.closeCallbacks)
      ran == [i \in 1..Len(r.ran) |-> Ran(s, r.ran[i])]
  IN [s EXCEPT !.cbLog = @ \o ran,
               !.closeCallbacks = IF r.escaped THEN @ ELSE <<>>]

\* SSEContext.cleanup; when an exception escapes the loop the list is not
\* emptied
cleanup(s) ==
  LET s1 == stopHeartbeat(s)
      r == runCallbacks(s1.closeCallbacks)
      ran == [i \in 1..Len(r.ran) |-> Ran(s1, r.ran[i])]
  IN [s1 EXCEPT !.cbLog = @ \o ran,
                !.closeCallbacks = IF r.escaped THEN @ ELSE <<>>]

\* an exception of a callback escapes cleanup
cleanupThrows(s) == runCallbacks(s.closeCallbacks).escaped

\* close without its first statement
closeUnguarded(s) ==
  LET s1 == cleanup([s EXCEPT !.isConnected = FALSE])
  IN IF cleanupThrows(s) THEN s1 ELSE [s1 EXCEPT !.endCount = @ + 1]

\* a close that ends the sink before it runs cleanup
closeEndsFirst(s) ==
  IF ~s.isConnected THEN s
  ELSE cleanup([s EXCEPT !.isConnected = FALSE, !.endCount = @ + 1])

\* SSEContext.close; reply.raw.end() is not reached when cleanup throws
close(s) ==
  IF ~s.isConnected THEN s
  ELSE LET s1 == cleanup([s EXCEPT !.isConnected = FALSE])
       IN IF cleanupThrows(s) THEN s1 ELSE [s1 EXCEPT !.endCount = @ + 1]

\* what close() gives its caller
closeReturns(s) == IF s.isConnected /\ cleanupThrows(s) THEN "callbackError" ELSE "ok"

\* a keepAlive that flips the flag
keepAliveToggles(s) == [s EXCEPT !.keepAlive = ~@]

\* SSEContext.keepAlive
keepAlive(s) == [s EXCEPT !.keepAlive = TRUE]

\* SSEContext.onClose
onClose(s, cb) == [s EXCEPT !.closeCallbacks = Append(@, cb)]

\* send without its first statement
sendNeverRejects(s) == FALSE

\* SSEContext.send, first statement
sendRejectsClosed(s) == ~s.isConnected

\* SSEContext.stream, first statement
streamRejectsClosed(s) == ~s.isConnected

\* SSEContext.writeToStream, first statement
writeRejectsClosed(s) == ~s.isConnected

\* a writeToStream that resolves whatever write() returned
writeToStreamNoWait(s, rec, w, canWrite) ==
  IF writeRejectsClosed(s) THEN [s |-> s, out |-> "closedError"]
  ELSE [s |-> rawWrite(sendHeaders(s), rec, canWrite), out |-> "resolved"]

\* SSEContext.writeToStream: the state after the synchronous part and how the
\* promise stands; a stalled write w leaves a 'drain' and an 'error' listener
writeToStream(s, rec, w, canWrite) ==
  IF writeRejectsClosed(s) THEN [s |-> s, out |-> "closedError"]
  ELSE LET s1 == rawWrite(sendHeaders(s), rec, canWrite)
       IN IF canWrite THEN [s |-> s1, out |-> "resolved"]
          ELSE [s |-> [s1 EXCEPT !.drainL = Append(@, w), !.errorL = Append(@, w)],
                out |-> "pending"]

Without(seq, w) == SelectSeq(seq, LAMBDA x : x # w)

\* an onDrain that leaves the 'error' listener of its write attached
onDrainKeepsErrorListener(s, w) ==
  [s EXCEPT !.drainL = Without(@, w)]

\* writeToStream, onDrain of write w
onDrain(s, w) ==
  [s EXCEPT !.errorL = Without(@, w), !.drainL = Without(@, w)]

\* onError without the test of the code: every error is passed on
onErrorAlwaysRejects(s, w, code) ==
  [s |-> [s EXCEPT !.drainL = Without(@, w), !.errorL = Without(@, w)], out |-> "rejected"]

\* writeToStream, onError of write w
onError(s, w, code) ==
  LET s1 == [s EXCEPT !.drainL = Without(@, w), !.errorL = Without(@, w)]
  IN IF writeErrorIsDisconnect(code)
     THEN [s |-> cleanup([s1 EXCEPT !.isConnected = FALSE]), out |-> "resolved"]
     ELSE [s |-> s1, out |-> "rejected"]

\* a context without a listener of its own: only a stalled write listens
hasErrorListenerWhileStalled(s) == s.errorL # <<>>

\* constructor, reply.raw.on('error', ...): the listener stays for the life of
\* the response, so an 'error' the sink emits is never thrown as uncaught
hasErrorListener(s) == s.created

\* constructor, reply.raw.on('close')
onRawClose(s) == cleanup([s EXCEPT !.isConnected = FALSE])

\* a listener that closes the context on every error
onRawErrorAlwaysCloses(s, code) == cleanup([s EXCEPT !.isConnected = FALSE])

\* constructor, reply.raw.on('error')
onRawError(s, code) ==
  IF rawErrorIsDisconnect(code)
  THEN cleanup([s EXCEPT !.isConnected = FALSE])
  ELSE s

\* a catch that rethrows whatever the pipeline failed with
onPipelineErrorRethrows(s, code) == [s |-> s, out |-> "rejected"]

\* send, catch around pipeline(): the state and the outcome of send
onPipelineError(s, code) ==
  IF pipelineErrorIsDisconnect(code)
  THEN [s |-> cleanup([s EXCEPT !.isConnected = FALSE]), out |-> "resolved"]
  ELSE [s |-> s, out |-> "rejected"]

\* a heartbeat that writes without making sure the headers are sent
heartbeatTickNoHeaders(s, t, canWrite) ==
  IF s.isConnected
  THEN rawWrite(s, <<"hb", 0, t>>, canWrite)
  ELSE stopHeartbeat(s)

\* a heartbeat that is skipped while the sink owes a 'drain'
heartbeatTickWhenWritable(s, t, canWrite) ==
  IF s.isConnected
  THEN (IF s.needDrain THEN sendHeaders(s)
        ELSE rawWrite(sendHeaders(s), <<"hb", 0, t>>, canWrite))
  ELSE stopHeartbeat(s)

\* startHeartbeat, the interval's callback at the t-th firing of the timer
heartbeatTick(s, t, canWrite) ==
  IF s.isConnected
  THEN rawWrite(sendHeaders(s), <<"hb", 0, t>>, canWrite)
  ELSE stopHeartbeat(s)

\* the methods sseHandler puts on reply.sse
SseInterface ==
  {"lastEventId", "send", "stream", "keepAlive", "close", "replay", "onClose", "isConnected"}

\* sseHandler, after the handler returned or threw
closeUnlessKeepAlive(s) == IF ~s.keepAlive THEN close(s) ELSE s


(***************************************************************************)
(* Initial state: sseHandler has set the default headers on the raw        *)
(* response, constructed the context and is about to call the handler.     *)
(***************************************************************************)
\* fastifySSE: heartbeatInterval = 30000 unless the plugin option or the
\* route's heartbeat: false makes it 0
HeartbeatIntervals == {0, 30000}

\* request.headers['last-event-id']: absent, empty, or an id
LastEventIdHeaders == {"absent", "", "1"}

\* SSEContext constructor: options.lastEventId || null
lastEventIdOf(header) == IF header = "absent" \/ header = "" THEN "null" ELSE header

LastEventIds == {lastEventIdOf(h) : h \in LastEventIdHeaders}

\* request.headers.accept: absent (no part), or media types and separators
AcceptHeaders ==
  { <<>>, <<"text/event-stream">>, <<"text/html">>, <<"*/*">>,
    <<"text/html", ",", "text/event-stream">> }

\* a check that takes any Accept header for an event-stream request
acceptsAny(a) == a # <<>>

\* sseHandler: acceptHeader.includes('text/event-stream')
acceptsSSE(a) == \E i \in 1..Len(a) : a[i] = "text/event-stream"

\* the plugin's interval whatever the route says
effectiveIntervalOfPlugin(o) == o.heartbeatInterval

\* sseHandler: sseOptions.heartbeat !== false ? heartbeatInterval : 0
effectiveInterval(o) == IF o.heartbeat THEN o.heartbeatInterval ELSE 0

\* sseHandler returned before it set a header or created a context: the
\* response is the reply's own, reply.sse does not exist
NoContext(replyHeaders) ==
  [created |-> FALSE, isConnected |-> FALSE, keepAlive |-> FALSE, headersSent |-> FALSE,
   heartbeatTimer |-> FALSE, closeCallbacks |-> <<>>, cbLog |-> <<>>,
   replyHeaders |-> replyHeaders, rawHeaders |-> NoHeaders,
   headBlock |-> NoHead, headCount |-> 0,
   sinkLog |-> <<>>, lateWrites |-> 0, endCount |-> 0, needDrain |-> FALSE,
   drainL |-> <<>>, errorL |-> <<>>, sinkClosed |-> FALSE, sinkErrored |-> FALSE,
   uncaught |-> FALSE]

\* SSEContext constructor
NewContext(interval, replyHeaders) ==
  [created |-> TRUE, isConnected |-> TRUE, keepAlive |-> FALSE, headersSent |-> FALSE,
   heartbeatTimer |-> interval > 0, closeCallbacks |-> <<>>, cbLog |-> <<>>,
   replyHeaders |-> replyHeaders, rawHeaders |-> DefaultHeaders,
   headBlock |-> NoHead, headCount |-> 0,
   sinkLog |-> <<>>, lateWrites |-> 0, endCount |-> 0, needDrain |-> FALSE,
   drainL |-> <<>>, errorL |-> <<>>, sinkClosed |-> FALSE, sinkErrored |-> FALSE,
   uncaught |-> FALSE]

Init ==
  /\ accept \in AcceptHeaders
  /\ options \in [heartbeatInterval : HeartbeatIntervals, heartbeat : BOOLEAN]
  /\ \E pre \in PreHandlerHeaders, header \in LastEventIdHeaders :
       IF acceptsSSE(accept)
       THEN S = NewContext(effectiveInterval(options), pre) /\ lastEventId = lastEventIdOf(header)
       ELSE S = NoContext(pre) /\ lastEventId = "null"
  /\ handler = [st |-> "running", err |-> "", ret |-> "none"]
  /\ iter = [st |-> "idle", n |-> 0, k |-> 0]
  /\ pipe = [st |-> "idle", n |-> 0, k |-> 0, wait |-> FALSE]
  /\ transform = FALSE
  /\ calls = <<>>
  /\ replay = [count |-> 0, invoked |-> 0, arg |-> "null", out |-> "none",
               cb |-> "none", first |-> 0, last |-> 0]
  /\ enc = [st |-> "idle"]
  /\ nsets = 0
  /\ nticks = 0
  /\ nerrors = 0

(***************************************************************************)
(* Operations the handler (or a timer it started) issues.                  *)
(***************************************************************************)
\* a call is logged with how it returned; a send that returned a pending
\* promise is "pending" (a stalled write), "piping" or "iterating" until it
\* settles
Call(op, out) ==
  /\ S.created
  /\ Len(calls) < MaxCalls
  /\ calls' = Append(calls, [op |-> op, out |-> out])
  /\ UNCHANGED <<request, replay, enc, handler, env>>

\* reply.sse.keepAlive()
KeepAlive ==
  /\ Call("keepAlive", "ok")
  /\ S' = keepAlive(S)
  /\ UNCHANGED <<iter, pipe, transform>>

\* reply.sse.close()
Close ==
  /\ Call("close", closeReturns(S))
  /\ S' = close(S)
  /\ UNCHANGED <<iter, pipe, transform>>

\* reply.sse.onClose(callback): the callbacks are numbered as they are
\* registered; `throws` says whether the callback throws when it is called
OnClose(throws) ==
  /\ S.created
  /\ Len(S.closeCallbacks) + Len(S.cbLog) < MaxCallbacks
  /\ S' = onClose(S, [id |-> Len(S.closeCallbacks) + Len(S.cbLog) + 1, throws |-> throws])
  /\ UNCHANGED <<request, replay, enc, handler, iter, pipe, transform, calls, env>>

\* context.sendHeaders()
SendHeaders ==
  /\ IF sendHeadersThrows(S)
     THEN Call("sendHeaders", "ERR_HTTP_HEADERS_SENT") /\ S' = S
     ELSE Call("sendHeaders", "ok") /\ S' = sendHeaders(S)
  /\ UNCHANGED <<iter, pipe, transform>>

\* reply.sse.sendHeaders(): a call of a property of the sse interface
SseSendHeaders ==
  /\ IF "sendHeaders" \in SseInterface
     THEN IF sendHeadersThrows(S)
          THEN Call("sse.sendHeaders", "ERR_HTTP_HEADERS_SENT") /\ S' = S
          ELSE Call("sse.sendHeaders", "ok") /\ S' = sendHeaders(S)
     ELSE Call("sse.sendHeaders", "TypeError") /\ S' = S
  /\ UNCHANGED <<iter, pipe, transform>>

\* reply.header(name, value)
ReplyHeader(h) ==
  /\ nsets < MaxHeaderSets
  /\ nsets' = nsets + 1
  /\ S' = [S EXCEPT !.replyHeaders[h[1]] = h[2]]
  /\ UNCHANGED <<request, replay, enc, handler, iter, pipe, transform, calls, nticks, nerrors>>

\* reply.raw.setHeader(name, value) in the handler; it throws once the header
\* block is on the wire
RawSetHeader(h) ==
  /\ nsets < MaxHeaderSets
  /\ nsets' = nsets + 1
  /\ S' = IF rawHeadersFlushed(S) THEN S ELSE [S EXCEPT !.rawHeaders[h[1]] = h[2]]
  /\ UNCHANGED <<request, replay, enc, handler, iter, pipe, transform, calls, nticks, nerrors>>

\* reply.sse.stream()
Stream ==
  /\ IF streamRejectsClosed(S)
     THEN Call("stream", "closedError") /\ UNCHANGED transform
     ELSE Call("stream", "ok") /\ transform' = TRUE
  /\ UNCHANGED <<S, iter, pipe>>

\* a chunk written into the transform of stream(), whose output the handler
\* pipes into reply.raw: transform._write
TransformWrite(canWrite) ==
  /\ transform
  /\ IF sendHeadersThrows(S)
     THEN Call("transform.write", "ERR_HTTP_HEADERS_SENT") /\ S' = S
     ELSE /\ Call("transform.write", "ok")
          /\ S' = rawWrite(sendHeaders(S), <<"tw", Len(calls) + 1, 0>>, canWrite)
  /\ UNCHANGED <<iter, pipe, transform>>

\* reply.sse.send(source)
Send(src) ==
  LET n == Len(calls) + 1 IN
  IF sendRejectsClosed(S)
  THEN /\ Call("send", "closedError")
       /\ UNCHANGED <<S, iter, pipe, transform>>
  ELSE CASE Classify(src) = "message" ->
         \E canWrite \in WriteReturns(S) :
           LET w == writeToStream(S, <<"msg", n, 0>>, <<n, 0>>, canWrite) IN
           /\ Call("send", w.out)
           /\ S' = w.s
           /\ UNCHANGED <<iter, pipe, transform>>
       [] Classify(src) = "stream" ->
           \* one pipe at a time
           /\ pipe.st # "piping"
           /\ Call("send", "piping")
           /\ S' = sendHeaders(S)
           /\ pipe' = [st |-> "piping", n |-> n, k |-> 0, wait |-> FALSE]
           /\ UNCHANGED <<iter, transform>>
       [] Classify(src) = "iterable" ->
           \* one iteration at a time
           /\ iter.st \in {"idle", "done"}
           /\ Call("send", "iterating")
           /\ iter' = [st |-> "pulling", n |-> n, k |-> 0]
           /\ UNCHANGED <<S, pipe, transform>>
       [] OTHER ->
           /\ Call("send", "TypeError")
           /\ UNCHANGED <<S, iter, pipe, transform>>

\* every send issued so far has settled
AllSettled ==
  \A n \in 1..Len(calls) : calls[n].out \notin {"pending", "piping", "iterating"}

\* await reply.sse.send(source): the handler issues a send only when the
\* one before has settled
AwaitedSend(src) == AllSettled /\ Send(src)

\* a replay that returns without awaiting its callback
replayCallNoAwait(r, id, n) ==
  IF id = "null"
  THEN [r EXCEPT !.count = @ + 1, !.out = "resolved"]
  ELSE [r EXCEPT !.count = @ + 1, !.invoked = @ + 1, !.arg = id,
                 !.out = "resolved", !.cb = "running", !.first = n]

\* SSEContext.replay, up to the await: without a last event id it returns at
\* once; with one it invokes the callback with it and waits for its promise.
\* n is the number of calls issued so far.
replayCall(r, id, n) ==
  IF id = "null"
  THEN [r EXCEPT !.count = @ + 1, !.out = "resolved"]
  ELSE [r EXCEPT !.count = @ + 1, !.invoked = @ + 1, !.arg = id,
                 !.out = "pending", !.cb = "running", !.first = n]

\* SSEContext.replay, after the await: the callback's promise has settled and
\* replay settles the same way
replaySettle(r, ok, n) ==
  [r EXCEPT !.cb = "settled", !.last = n,
            !.out = IF @ = "pending" THEN (IF ok THEN "resolved" ELSE "rejected") ELSE @]

\* await reply.sse.replay(callback)
Replay ==
  /\ S.created
  /\ replay.count < MaxReplays
  /\ replay.out # "pending" /\ replay.cb # "running"
  /\ replay' = replayCall(replay, lastEventId, Len(calls))
  /\ UNCHANGED <<S, request, enc, handler, iter, pipe, transform, calls, env>>

\* the replay callback, which awaits each of its sends, returns or throws
ReplayCallbackSettles(ok) ==
  /\ replay.cb = "running"
  /\ AllSettled
  /\ replay' = replaySettle(replay, ok, Len(calls))
  /\ UNCHANGED <<S, request, enc, handler, iter, pipe, transform, calls, env>>

\* formatSSEMessage(message, serializer) is called
Format(message, serializer) ==
  /\ enc' = [st |-> "done", message |-> message, serializer |-> serializer,
             payload |-> formatSSEMessage(message, serializer)]
  /\ UNCHANGED <<S, request, replay, handler, iter, pipe, transform, calls, env>>

\* one use of the encoder in a behaviour, on any payload
Encode ==
  /\ enc.st = "idle"
  /\ \E message \in Payloads(MaxTextLen), serializer \in Serializers :
       Format(message, serializer)

(***************************************************************************)
(* Steps of a send in progress, and the sink's notifications.              *)
(***************************************************************************)
Event == UNCHANGED <<request, replay, enc>>

Settle(cs, n, out) == [cs EXCEPT ![n].out = out]

\* the writes of `ws` that belong to message sends settle with `out`; the
\* outcome of the send is the outcome of its write
SettleMessages(cs, ws, out) ==
  [n \in 1..Len(cs) |->
     IF \E i \in 1..Len(ws) : ws[i] = <<n, 0>> THEN [cs[n] EXCEPT !.out = out] ELSE cs[n]]

IterStalled(s) ==
  iter.st = "writing" /\ \E i \in 1..Len(s.drainL) : s.drainL[i] = <<iter.n, iter.k>>

\* send, for await: if (!this._isConnected) break
iterBreaks(s) == ~s.isConnected

\* the loop without the await: the next pull does not wait for the write
afterItemWriteNoAwait(out) ==
  CASE out = "resolved" -> "pulling"
    [] out = "pending" -> "pulling"
    [] OTHER -> "done"

\* send, for await: await this.writeToStream(formatted), then the next pull
afterItemWrite(out) ==
  CASE out = "resolved" -> "pulling"
    [] out = "pending" -> "writing"
    [] OTHER -> "done"

\* send, for await: the source yields its next item
IterYield ==
  /\ iter.st = "pulling"
  /\ iter.k < MaxItems
  /\ IF iterBreaks(S)
     THEN /\ iter' = [iter EXCEPT !.st = "done"]
          /\ calls' = Settle(calls, iter.n, "resolved")
          /\ S' = S
     ELSE \E canWrite \in WriteReturns(S) :
            LET k == iter.k + 1
                w == writeToStream(S, <<"item", iter.n, k>>, <<iter.n, k>>, canWrite)
            IN /\ S' = w.s
               /\ iter' = [iter EXCEPT !.k = k, !.st = afterItemWrite(w.out)]
               /\ calls' = IF w.out \in {"resolved", "pending"} THEN calls
                           ELSE Settle(calls, iter.n, w.out)
  /\ Event
  /\ UNCHANGED <<handler, pipe, transform, env>>

\* send, for await: the source is exhausted
IterEnd ==
  /\ iter.st = "pulling"
  /\ iter' = [iter EXCEPT !.st = "done"]
  /\ calls' = Settle(calls, iter.n, "resolved")
  /\ Event
  /\ UNCHANGED <<S, handler, pipe, transform, env>>

\* a source error handled like an error of the sink: the context is closed
IterThrowCloses ==
  /\ iter.st = "pulling"
  /\ iter' = [iter EXCEPT !.st = "done"]
  /\ calls' = Settle(calls, iter.n, "sourceError")
  /\ S' = close(S)
  /\ Event
  /\ UNCHANGED <<handler, pipe, transform, env>>

\* send, for await: the source raises
IterThrow ==
  /\ iter.st = "pulling"
  /\ iter' = [iter EXCEPT !.st = "done"]
  /\ calls' = Settle(calls, iter.n, "sourceError")
  /\ Event
  /\ UNCHANGED <<S, handler, pipe, transform, env>>

\* pipeline(source, transform, reply.raw, { end: false }): one chunk of the
\* source goes through the transform into the sink
PipeChunk ==
  /\ pipe.st = "piping" /\ ~pipe.wait
  /\ pipe.k < MaxItems
  /\ \E canWrite \in WriteReturns(S) :
       /\ S' = rawWrite(S, <<"chunk", pipe.n, pipe.k + 1>>, canWrite)
       /\ pipe' = [pipe EXCEPT !.k = @ + 1, !.wait = ~canWrite]
  /\ Event
  /\ UNCHANGED <<handler, iter, transform, calls, env>>

\* a pipeline without { end: false }: the sink is ended with the source
PipeEndEndsSink ==
  /\ pipe.st = "piping" /\ ~pipe.wait
  /\ pipe' = [pipe EXCEPT !.st = "done"]
  /\ calls' = Settle(calls, pipe.n, "resolved")
  /\ S' = [S EXCEPT !.endCount = @ + 1]
  /\ Event
  /\ UNCHANGED <<handler, iter, transform, env>>

\* pipeline(): the source ended and everything is flushed; the sink is not ended
PipeEnd ==
  /\ pipe.st = "piping" /\ ~pipe.wait
  /\ pipe' = [pipe EXCEPT !.st = "done"]
  /\ calls' = Settle(calls, pipe.n, "resolved")
  /\ Event
  /\ UNCHANGED <<S, handler, iter, transform, env>>

\* pipeline(): the source stream fails with an error carrying `code`
PipeSourceError(code) ==
  /\ pipe.st = "piping"
  /\ LET p == onPipelineError(S, code) IN
       /\ S' = p.s
       /\ calls' = Settle(calls, pipe.n, p.out)
  /\ pipe' = [pipe EXCEPT !.st = "done"]
  /\ Event
  /\ UNCHANGED <<handler, iter, transform, env>>

RECURSIVE fireDrain(_, _)
fireDrain(s, ws) ==
  IF ws = <<>> THEN s ELSE fireDrain(onDrain(s, Head(ws)), Tail(ws))

\* the sink emits 'drain': every stalled write resumes
Drain ==
  /\ S.needDrain /\ ~S.sinkClosed /\ S.endCount = 0
  /\ S' = fireDrain([S EXCEPT !.needDrain = FALSE], S.drainL)
  /\ calls' = SettleMessages(calls, S.drainL, "resolved")
  /\ iter' = IF IterStalled(S) THEN [iter EXCEPT !.st = afterItemWrite("resolved")] ELSE iter
  /\ pipe' = [pipe EXCEPT !.wait = FALSE]
  /\ Event
  /\ UNCHANGED <<handler, transform, env>>

RECURSIVE fireError(_, _, _)
fireError(s, ws, code) ==
  IF ws = <<>> THEN s ELSE fireError(onError(s, Head(ws), code).s, Tail(ws), code)

\* the sink emits 'error': the constructor's listener runs, then the onError
\* of every stalled write; a pipeline on the sink fails with the same error
SinkError(code) ==
  /\ S.created
  /\ nerrors < MaxErrors /\ ~S.sinkClosed
  /\ nerrors' = nerrors + 1
  /\ LET s0 == [S EXCEPT !.sinkErrored = TRUE, !.uncaught = @ \/ ~hasErrorListener(S)]
         s1 == fireError(onRawError(s0, code), S.errorL, code)
         out == onError(S, <<0, 0>>, code).out
         p == onPipelineError(s1, code)
         cs == SettleMessages(calls, S.errorL, out)
     IN /\ S' = IF pipe.st = "piping" THEN p.s ELSE s1
        /\ pipe' = IF pipe.st = "piping" THEN [pipe EXCEPT !.st = "done"] ELSE pipe
        /\ iter' = IF IterStalled(S) THEN [iter EXCEPT !.st = afterItemWrite(out)] ELSE iter
        /\ calls' = [n \in 1..Len(cs) |->
                       IF pipe.st = "piping" /\ n = pipe.n THEN [cs[n] EXCEPT !.out = p.out]
                       ELSE IF IterStalled(S) /\ n = iter.n /\ out # "resolved"
                            THEN [cs[n] EXCEPT !.out = out]
                       ELSE cs[n]]
  /\ Event
  /\ UNCHANGED <<handler, transform, nsets, nticks>>

\* the sink emits 'close'; a pipeline on the sink fails with a premature close
SinkClose ==
  /\ S.created
  /\ ~S.sinkClosed
  /\ LET s1 == onRawClose([S EXCEPT !.sinkClosed = TRUE])
         p == onPipelineError(s1, "ERR_STREAM_PREMATURE_CLOSE")
     IN /\ S' = IF pipe.st = "piping" THEN p.s ELSE s1
        /\ pipe' = IF pipe.st = "piping" THEN [pipe EXCEPT !.st = "done"] ELSE pipe
        /\ calls' = IF pipe.st = "piping" THEN Settle(calls, pipe.n, p.out) ELSE calls
  /\ Event
  /\ UNCHANGED <<handler, iter, transform, env>>

\* the heartbeat interval fires
Tick ==
  /\ S.heartbeatTimer
  /\ nticks < MaxTicks
  /\ nticks' = nticks + 1
  /\ \E canWrite \in WriteReturns(S) : S' = heartbeatTick(S, nticks + 1, canWrite)
  /\ Event
  /\ UNCHANGED <<handler, iter, pipe, transform, calls, nsets, nerrors>>

(***************************************************************************)
(* sseHandler: the handler returns or throws.                              *)
(***************************************************************************)
HandlerErrors == {"E1", "E2"}

\* sseHandler: await originalHandler(...) returned
HandlerReturn ==
  /\ S.created
  /\ handler.st = "running"
  /\ S' = closeUnlessKeepAlive(S)
  /\ handler' = [st |-> "returned", err |-> "", ret |-> "undefined"]
  /\ Event
  /\ UNCHANGED <<iter, pipe, transform, calls, env>>

\* sseHandler: catch (error) { ...; throw error }
rethrown(e) == e

\* sseHandler: await originalHandler(...) threw e
HandlerThrow(e) ==
  /\ S.created
  /\ handler.st = "running"
  /\ S' = closeUnlessKeepAlive(S)
  /\ handler' = [st |-> "rethrown", err |-> rethrown(e), ret |-> "none"]
  /\ Event
  /\ UNCHANGED <<iter, pipe, transform, calls, env>>

\* what an ordinary handler may return
HandlerValues == {"undefined", "payload"}

\* sseHandler: return await originalHandler.call(this, request, reply), for
\* a request that does not accept an event stream
FallbackReturn(v) ==
  /\ ~S.created
  /\ handler.st = "running"
  /\ handler' = [st |-> "returned", err |-> "", ret |-> v]
  /\ Event
  /\ UNCHANGED <<S, iter, pipe, transform, calls, env>>

\* sseHandler: the ordinary handler threw
FallbackThrow(e) ==
  /\ ~S.created
  /\ handler.st = "running"
  /\ handler' = [st |-> "rethrown", err |-> e, ret |-> "none"]
  /\ Event
  /\ UNCHANGED <<S, iter, pipe, transform, calls, env>>

Next ==
  \/ KeepAlive
  \/ Close
  \/ \E throws \in BOOLEAN : OnClose(throws)
  \/ SendHeaders
  \/ SseSendHeaders
  \/ \E h \in HandlerHeaders : ReplyHeader(h)
  \/ \E h \in RawHandlerHeaders : RawSetHeader(h)
  \/ Stream
  \/ \E canWrite \in WriteReturns(S) : TransformWrite(canWrite)
  \/ \E src \in Sources : Send(src)
  \/ Replay
  \/ \E ok \in BOOLEAN : ReplayCallbackSettles(ok)
  \/ Encode
  \/ IterYield
  \/ IterEnd
  \/ IterThrow
  \/ PipeChunk
  \/ PipeEnd
  \/ \E code \in ErrorCodes : PipeSourceError(code)
  \/ Drain
  \/ \E code \in ErrorCodes : SinkError(code)
  \/ SinkClose
  \/ Tick
  \/ \E e \in HandlerErrors : HandlerThrow(e)
  \/ HandlerReturn
  \/ \E v \in HandlerValues : FallbackReturn(v)
  \/ \E e \in HandlerErrors : FallbackThrow(e)

Spec == Init /\ [][Next]_vars


(***************************************************************************)
(* Restrictions of Spec: fewer initial states and a sub-disjunction of     *)
(* Next each, so that every behaviour of one of them is a behaviour of     *)
(* Spec. Each follows one part of the connection's life.                   *)
(***************************************************************************)
\* an event-stream request with no Last-Event-ID, the default heartbeat, no
\* preHandler headers
InitPlain ==
  /\ Init
  /\ accept = <<"text/event-stream">>
  /\ options = [heartbeatInterval |-> 30000, heartbeat |-> TRUE]
  /\ S.replyHeaders = NoHeaders
  /\ lastEventId = "null"

\* closing: close(), the sink's notifications, and calls on a closed context
NextClosed ==
  \/ Close
  \/ \E throws \in {FALSE} : OnClose(throws)
  \/ Stream
  \/ \E src \in Sources : Send(src)
  \/ \E code \in ErrorCodes : SinkError(code)
  \/ SinkClose
  \/ HandlerReturn

SpecClosed == InitPlain /\ [][NextClosed]_vars

\* the handler's end: keepAlive, auto-close, sends after the handler returned
NextHandler ==
  \/ KeepAlive
  \/ Close
  \/ \E src \in {MessageSource, ReadableSource} : Send(src)
  \/ PipeChunk
  \/ PipeEnd
  \/ \E code \in ErrorCodes : PipeSourceError(code)
  \/ \E code \in ErrorCodes : SinkError(code)
  \/ SinkClose
  \/ \E e \in HandlerErrors : HandlerThrow(e)
  \/ HandlerReturn

SpecHandler == InitPlain /\ [][NextHandler]_vars

\* send, for await: the first item of the source
IterYieldFirst == iter.k = 0 /\ IterYield

\* headers: what is set, when it is transmitted
NextHeaders ==
  \/ Close
  \/ SendHeaders
  \/ SseSendHeaders
  \/ \E h \in HandlerHeaders : ReplyHeader(h)
  \/ \E h \in RawHandlerHeaders : RawSetHeader(h)
  \/ Stream
  \/ \E canWrite \in WriteReturns(S) : TransformWrite(canWrite)
  \/ \E src \in {MessageSource, ReadableSource, GeneratorSource} : Send(src)
  \/ IterYieldFirst
  \/ Tick

\* the heartbeat is on, no Last-Event-ID; with and without headers of a
\* preHandler hook
InitHeaders ==
  /\ Init
  /\ accept = <<"text/event-stream">>
  /\ options.heartbeat
  /\ S.heartbeatTimer
  /\ lastEventId = "null"

SpecHeaders == InitHeaders /\ [][NextHeaders]_vars

\* a handler that awaits each of its sends, with the heartbeat running
NextOrder ==
  \/ \E src \in {MessageSource, ReadableSource, GeneratorSource} : AwaitedSend(src)
  \/ IterYield
  \/ IterEnd
  \/ PipeChunk
  \/ PipeEnd
  \/ Drain
  \/ Tick

SpecOrder == InitPlain /\ [][NextOrder]_vars

\* single messages under backpressure, with close callbacks registered
NextBackpressure ==
  \/ \E src \in {MessageSource} : Send(src)
  \/ \E throws \in {FALSE} : OnClose(throws)
  \/ Close
  \/ Drain
  \/ \E code \in ErrorCodes : SinkError(code)
  \/ SinkClose
  \/ Tick

SpecBackpressure == InitPlain /\ [][NextBackpressure]_vars

\* an event-stream request under every combination of the plugin's interval
\* and the route's heartbeat option
InitHeartbeat ==
  /\ Init
  /\ acceptsSSE(accept)
  /\ S.replyHeaders = NoHeaders
  /\ lastEventId = "null"

\* the heartbeat over the life of a connection
NextHeartbeat ==
  \/ KeepAlive
  \/ Close
  \/ \E src \in {MessageSource} : Send(src)
  \/ \E code \in ErrorCodes : SinkError(code)
  \/ SinkClose
  \/ Tick
  \/ HandlerReturn

SpecHeartbeat == InitHeartbeat /\ [][NextHeartbeat]_vars

\* iterating an async sequence under backpressure and disconnects
NextIter ==
  \/ \E src \in {GeneratorSource} : Send(src)
  \/ Close
  \/ IterYield
  \/ IterEnd
  \/ IterThrow
  \/ Drain
  \/ \E code \in ErrorCodes : SinkError(code)
  \/ SinkClose

SpecIter == InitPlain /\ [][NextIter]_vars

\* a failing async iterable, and the sends that follow it
NextSourceError ==
  \/ \E src \in {MessageSource, GeneratorSource} : Send(src)
  \/ IterYield
  \/ IterEnd
  \/ IterThrow
  \/ Drain
  \/ SinkClose
  \/ Tick

SpecSourceError == InitPlain /\ [][NextSourceError]_vars

\* an event-stream request with or without a Last-Event-ID
InitReplay ==
  /\ Init
  /\ accept = <<"text/event-stream">>
  /\ options = [heartbeatInterval |-> 30000, heartbeat |-> TRUE]
  /\ S.replyHeaders = NoHeaders

\* a handler that awaits replay and each send, as the replay callback does
NextReplay ==
  \/ Replay
  \/ \E ok \in BOOLEAN : ReplayCallbackSettles(ok)
  \/ \E src \in {MessageSource, GeneratorSource} : AwaitedSend(src)
  \/ IterYield
  \/ IterEnd
  \/ Drain
  \/ SinkClose

SpecReplay == InitReplay /\ [][NextReplay]_vars

\* close callbacks, some of which throw, and the ways a context closes
NextCallbacks ==
  \/ \E throws \in BOOLEAN : OnClose(throws)
  \/ KeepAlive
  \/ Close
  \/ \E code \in ErrorCodes : SinkError(code)
  \/ SinkClose
  \/ HandlerReturn

SpecCallbacks == InitPlain /\ [][NextCallbacks]_vars

\* a request whose Accept header is absent or names other media types only
InitFallback ==
  /\ Init
  /\ accept \in {<<>>, <<"text/html">>, <<"*/*">>}

\* the original handler run as an ordinary handler
NextFallback ==
  \/ \E h \in HandlerHeaders : ReplyHeader(h)
  \/ \E h \in RawHandlerHeaders : RawSetHeader(h)
  \/ \E v \in HandlerValues : FallbackReturn(v)
  \/ \E e \in HandlerErrors : FallbackThrow(e)

SpecFallback == InitFallback /\ [][NextFallback]_vars

\* a client that goes away: while the handler runs, after it returned with
\* keepAlive, while sends go on
NextDisconnect ==
  \/ \E throws \in {FALSE} : OnClose(throws)
  \/ KeepAlive
  \/ HandlerReturn
  \/ \E src \in {MessageSource} : Send(src)
  \/ Drain
  \/ \E code \in ErrorCodes : SinkError(code)
  \/ SinkClose
  \/ Tick

SpecDisconnect == InitPlain /\ [][NextDisconnect]_vars

\* the encoder applied to every payload, under either serializer
NextEncoder == Encode

SpecEncoder == InitPlain /\ [][NextEncoder]_vars

\* an event-stream request with or without a Last-Event-ID, the default
\* heartbeat, no preHandler headers
InitFlags ==
  /\ Init
  /\ accept = <<"text/event-stream">>
  /\ options = [heartbeatInterval |-> 30000, heartbeat |-> TRUE]
  /\ S.replyHeaders = NoHeaders

\* everything that writes one of the context's flags
NextFlags ==
  \/ KeepAlive
  \/ Close
  \/ SendHeaders
  \/ \E src \in {MessageSource} : Send(src)
  \/ \E code \in ErrorCodes : SinkError(code)
  \/ SinkClose
  \/ Tick
  \/ HandlerReturn

SpecFlags == InitFlags /\ [][NextFlags]_vars

\* the four ways a byte reaches the sink: a message or an item, a piped
\* chunk, the output of a stream() transform, a heartbeat
NextFirstByte ==
  \/ Stream
  \/ \E canWrite \in WriteReturns(S) : TransformWrite(canWrite)
  \/ \E src \in {MessageSource, ReadableSource, GeneratorSource} : Send(src)
  \/ IterYieldFirst
  \/ PipeChunk
  \/ Tick
  \/ Close

SpecFirstByte == InitPlain /\ [][NextFirstByte]_vars

\* writes that stall, of single messages and of the items of a sequence, and
\* the ways they settle
NextListeners ==
  \/ \E src \in {MessageSource, GeneratorSource} : Send(src)
  \/ IterYield
  \/ IterEnd
  \/ Close
  \/ Drain
  \/ \E code \in ErrorCodes : SinkError(code)
  \/ SinkClose

SpecListeners == InitPlain /\ [][NextListeners]_vars

\* every way cleanup is reached, with callbacks registered before and after
NextOnce ==
  \/ \E throws \in BOOLEAN : OnClose(throws)
  \/ Close
  \/ \E src \in {MessageSource, ReadableSource} : Send(src)
  \/ \E code \in ErrorCodes : PipeSourceError(code)
  \/ \E code \in ErrorCodes : SinkError(code)
  \/ SinkClose
  \/ HandlerReturn

SpecOnce == InitPlain /\ [][NextOnce]_vars

\* a message send suspended on backpressure, and what can reach it: 'drain',
\* an 'error', close(), the sink's 'close'
NextSettle ==
  \/ \E src \in {MessageSource} : Send(src)
  \/ Close
  \/ Drain
  \/ \E code \in ErrorCodes : SinkError(code)
  \/ SinkClose

\* a sink that can still drain does so, and every response is closed in the
\* end
SpecSettle ==
  InitPlain /\ [][NextSettle]_vars /\ WF_vars(Drain) /\ WF_vars(SinkClose)

\* a transform of stream() that outlives its context
NextTransform ==
  \/ Stream
  \/ \E canWrite \in WriteReturns(S) : TransformWrite(canWrite)
  \/ \E src \in {MessageSource} : Send(src)
  \/ Close
  \/ \E code \in ErrorCodes : SinkError(code)
  \/ SinkClose
  \/ Tick

SpecTransform == InitPlain /\ [][NextTransform]_vars

\* close callbacks over the whole life of a response: every response is
\* closed in the end
SpecCallbacksToTheEnd ==
  InitPlain /\ [][NextCallbacks]_vars /\ WF_vars(SinkClose)

(***************************************************************************)
(* Properties.                                                             *)
(***************************************************************************)
\* the step is a call of one of `ops`, logged as the last entry of calls'
IsCall(ops) == Len(calls') = Len(calls) + 1 /\ calls'[Len(calls')].op \in ops

Returned == calls'[Len(calls')].out

\* C1: on a closed context (isConnected false) every send, whatever the
\* source, and every stream() fails with the connection-closed error, and the
\* call changes nothing of the context or the sink: no header block, no
\* write, no pipe or iteration started, no transform created.
C1_ClosedCallsFail ==
  [][ (~S.isConnected /\ IsCall({"send", "stream"}))
        => /\ Returned = "closedError"
           /\ S' = S
           /\ iter' = iter /\ pipe' = pipe /\ transform' = transform ]_vars

\* a send and a stream() were both refused on a context closed before any
\* header or data went out
C1_Witness ==
  /\ ~S.isConnected /\ ~S.headersSent /\ S.sinkLog = <<>>
  /\ Len(calls) = 2
  /\ \E i, j \in 1..2 :
       /\ calls[i] = [op |-> "send", out |-> "closedError"]
       /\ calls[j] = [op |-> "stream", out |-> "closedError"]

\* C2: close() is idempotent. The first close() of an open context stops
\* the heartbeat, runs every registered callback once and ends the sink once;
\* a close() of a closed context changes nothing, so the sink is never ended
\* twice and no callback ever runs twice.
C2_CloseIdempotent ==
  /\ [](S.endCount <= 1)
  /\ [](\A i, j \in 1..Len(S.cbLog) : S.cbLog[i].cb = S.cbLog[j].cb => i = j)
  /\ [][ IsCall({"close"}) =>
           IF S.isConnected
           THEN /\ ~S'.isConnected /\ ~S'.heartbeatTimer
                /\ S'.endCount = S.endCount + 1
                /\ S'.closeCallbacks = <<>>
                /\ Len(S'.cbLog) = Len(S.cbLog) + Len(S.closeCallbacks)
                /\ \A i \in 1..Len(S.closeCallbacks) :
                     S'.cbLog[Len(S.cbLog) + i].cb = S.closeCallbacks[i]
           ELSE S' = S ]_vars

\* close() was called twice after a callback was registered: one end of the
\* sink, one run of the callback
C2_Witness ==
  /\ Len(calls) = 2 /\ calls[1].op = "close" /\ calls[2].op = "close"
  /\ S.endCount = 1 /\ Len(S.cbLog) >= 1 /\ S.closeCallbacks = <<>>

\* the step is the end of the handler: it returned or threw
HandlerEnds == handler.st = "running" /\ handler'.st # "running"

\* the sink was ended by the context, or it is gone by itself
SinkFinished(s) == s.endCount > 0 \/ s.sinkClosed \/ s.sinkErrored

\* C3: when the handler returns or throws and keepAlive() was not called,
\* the context is closed and the sink is ended (unless the sink is already
\* gone); an error the handler threw is the one rethrown.
C3_AutoClose ==
  [][ (HandlerEnds /\ ~S.keepAlive)
        => /\ ~S'.isConnected
           /\ SinkFinished(S')
           /\ handler'.st = "rethrown" => handler'.err \in HandlerErrors ]_vars

\* C4: after keepAlive() the end of the handler leaves the context as it
\* is, a later send on the open context is written to the sink, and the
\* context is closed only by a close() or by a close or error notification of
\* the sink.
C4_KeptAlive ==
  /\ [][ (HandlerEnds /\ S.keepAlive) => S' = S ]_vars
  /\ [][ (handler.st # "running" /\ S.isConnected /\ IsCall({"send"}))
           => Returned \in {"resolved", "pending", "piping"} ]_vars
  /\ [][ (S.keepAlive /\ S.isConnected /\ ~S'.isConnected)
           => \/ IsCall({"close"})
              \/ ~S.sinkClosed /\ S'.sinkClosed
              \/ nerrors' = nerrors + 1 ]_vars

\* the step is one of the operations that ensure the headers: sendHeaders(),
\* a send that writes a message or starts a pipe, the write of an item of an
\* async sequence, a write into a transform of stream(), a heartbeat tick
EnsuresHeaders ==
  \/ IsCall({"sendHeaders", "transform.write"})
  \/ IsCall({"send"}) /\ Returned \in {"resolved", "pending", "piping"}
  \/ iter'.k = iter.k + 1
  \/ nticks' = nticks + 1

\* the step puts the status line and header block on the wire
Transmits == S'.headCount = S.headCount + 1

\* C5: the status line and header block are transmitted at most once; on an
\* open context with nothing on the wire the first operation that ensures
\* headers transmits them (for an async sequence: the write of its first
\* item), and once they are sent no step transmits again or changes what was
\* transmitted.
C5_HeadersOnce ==
  /\ [](S.headCount <= 1)
  /\ [][ (EnsuresHeaders /\ S.isConnected /\ ~rawHeadersFlushed(S))
           => (Transmits /\ S'.headersSent /\ S'.headCount = 1) ]_vars
  /\ [][ S.headersSent
           => (S'.headersSent /\ ~Transmits /\ S'.headBlock = S.headBlock) ]_vars

\* sendHeaders(), then a send that wrote, then a heartbeat: one transmission
C5_Witness ==
  /\ Len(calls) = 2 /\ S.headCount = 1 /\ nticks = 1
  /\ calls[1].op = "sendHeaders"
  /\ calls[2] = [op |-> "send", out |-> "resolved"]
  /\ Len(S.sinkLog) = 2 /\ S.sinkLog[2][1] = "hb"

\* C6: the transmitted block is the reply's headers as they are when the
\* transmission happens, whatever operation triggers it: every header then
\* set on the reply is in the block with its value, and a header set on the
\* reply afterwards does not change the block.
C6_HeaderSnapshot ==
  /\ [][ Transmits =>
           \A n \in HeaderNames :
             S.replyHeaders[n] # "" => S'.headBlock.headers[n] = S.replyHeaders[n] ]_vars
  /\ [][ (S.headCount > 0 /\ S'.replyHeaders # S.replyHeaders)
           => S'.headBlock = S.headBlock ]_vars

\* a first send transmitted the preHandler's header, and the header set by
\* the handler afterwards is not in the block
C6_Witness ==
  /\ S.headCount = 1 /\ calls # <<>> /\ calls[1].op = "send"
  /\ S.headBlock.headers["x-custom"] = "pre"
  /\ S.replyHeaders["x-custom"] = "a"

\* the four headers of an event stream
RequiredHeaders ==
  { <<"content-type", "text/event-stream">>, <<"cache-control", "no-cache">>,
    <<"connection", "keep-alive">>, <<"x-accel-buffering", "no">> }

Carried(block) ==
  /\ block.status = 200
  /\ \A r \in RequiredHeaders : block.headers[r[1]] = r[2]

\* no header setting in effect gives one of the four names another value
NoConflictingSetting(s) ==
  \A r \in RequiredHeaders :
    /\ s.replyHeaders[r[1]] \in {"", r[2]}
    /\ ~\E h \in RawHandlerHeaders : h[1] = r[1] /\ h[2] # r[2] /\ s.rawHeaders[h[1]] = h[2]

C8_SseSendHeaders ==
  /\ [][ (IsCall({"sse.sendHeaders"}) /\ S.isConnected /\ ~rawHeadersFlushed(S))
           => (Returned = "ok" /\ Transmits) ]_vars
  /\ [][ (S.isConnected /\ IsCall({"send"}) /\ calls # <<>>
                          /\ calls[Len(calls)].op = "sse.sendHeaders")
           => Returned # "closedError" ]_vars

DisconnectCodes == {"ECONNRESET", "EPIPE", "UND_ERR_ABORTED"}

\* a send of an async sequence is in progress
Iterating == iter.st \in {"pulling", "writing"}

\* the records of the items of the iteration of call n, as the sink got them
ItemsOf(s, n) == SelectSeq(s.sinkLog, LAMBDA r : r[1] = "item" /\ r[2] = n)

\* the item writes waiting for 'drain'
StalledItems(s) == SelectSeq(s.drainL, LAMBDA w : w[2] > 0)

\* C9: when the sink reports ECONNRESET, EPIPE or UND_ERR_ABORTED while a
\* send iterates an async sequence, with the current write stalled or not,
\* the context is disconnected by that step and a stalled write is released,
\* so the loop is back at pulling its source; from then on nothing is written
\* to the sink, and the send never settles with the sink's error or a
\* connection-closed error: it stays in progress or returns normally (or
\* fails with an error of the source itself).
C9_DisconnectEndsIteration ==
  /\ [][ \A code \in DisconnectCodes :
             (SinkError(code) /\ Iterating)
               => /\ ~S'.isConnected
                  /\ StalledItems(S') = <<>>
                  /\ iter'.st \in {"pulling", "done"}
                  /\ calls'[iter.n].out = "iterating" ]_vars
  /\ [][ ~S.isConnected => (~S'.isConnected /\ S'.sinkLog = S.sinkLog) ]_vars
  /\ [][ (iter.st = "pulling" /\ ~S.isConnected)
           => /\ iter'.st \in {"pulling", "done"}
              /\ calls'[iter.n].out \in {"iterating", "resolved", "sourceError"} ]_vars

\* the write of the first item stalled, the sink then
\* reported an error that disconnected the context, and the send returned
\* normally with that one item written
C9_Witness ==
  /\ S.sinkErrored /\ ~S.isConnected /\ ~S.sinkClosed
  /\ S.needDrain
  /\ iter.st = "done" /\ iter.k = 1
  /\ calls[iter.n] = [op |-> "send", out |-> "resolved"]
  /\ S.sinkLog = << <<"item", iter.n, 1>> >>

\* C10: the items of an async sequence reach the sink one at a time and in
\* source order: item k+1 is pulled only when the write of item k has
\* completed, so at most one item write waits for drain and none does while
\* the source is being pulled; an item that arrives when the context is
\* disconnected is not written and ends the send normally.
C10_OneItemAtATime ==
  /\ [](\A n \in 1..Len(calls) :
          \A j \in 1..Len(ItemsOf(S, n)) : ItemsOf(S, n)[j] = <<"item", n, j>>)
  /\ [](Len(StalledItems(S)) <= 1)
  /\ [](iter.st = "pulling" => StalledItems(S) = <<>>)
  /\ [][ iter'.k = iter.k + 1
           => /\ iter.st = "pulling" /\ S.isConnected
              /\ ItemsOf(S', iter.n) = Append(ItemsOf(S, iter.n), <<"item", iter.n, iter.k + 1>>) ]_vars
  /\ [][ (IterYield /\ ~S.isConnected)
           => /\ S' = S
              /\ iter'.st = "done" /\ iter'.k = iter.k
              /\ calls'[iter.n].out = "resolved" ]_vars

\* the first item is written and the second waits for drain
C10_Witness ==
  /\ iter.st = "writing" /\ iter.k = 2
  /\ S.drainL = << <<iter.n, 2>> >>
  /\ ItemsOf(S, iter.n) = << <<"item", iter.n, 1>>, <<"item", iter.n, 2>> >>

\* the records of the sends, and the heartbeat records, as the sink got them
DataRecords(s) == SelectSeq(s.sinkLog, LAMBDA r : r[1] # "hb")

HeartbeatRecords(s) == SelectSeq(s.sinkLog, LAMBDA r : r[1] = "hb")

\* record a was issued before record b: by an earlier send, or earlier by
\* the same send
IssuedBefore(a, b) == a[2] < b[2] \/ (a[2] = b[2] /\ a[3] < b[3])

InIssueOrder(recs) ==
  \A i, j \in 1..Len(recs) : i < j => IssuedBefore(recs[i], recs[j])

\* C11: when the handler awaits each send before it issues the next, the
\* records of its sends (messages, chunks of a stream, items of a sequence)
\* are in the sink in the order they were issued, and the heartbeat records,
\* wherever they fall between them, are in the order of the timer's firings.
C11_IssueOrder ==
  InIssueOrder(DataRecords(S)) /\ InIssueOrder(HeartbeatRecords(S))

\* two items of a sequence and then a message, with both heartbeats
\* written between the first and the last of them
C11_Witness ==
  /\ Len(DataRecords(S)) = 3 /\ Len(HeartbeatRecords(S)) = 2
  /\ S.sinkLog[1][1] = "item" /\ S.sinkLog[Len(S.sinkLog)][1] = "msg"

\* the sends whose write waits for 'drain'
PendingSends == {n \in 1..Len(calls) : calls[n].out = "pending"}

\* C12: when the sink reports an error while writes wait for drain, the
\* waiting is over for each of them: on ECONNRESET, EPIPE or UND_ERR_ABORTED
\* the context is disconnected, cleanup has run (heartbeat stopped, every
\* registered callback run once) and each write resolves; on any other error
\* each write is rejected and the context is left as it was.
C12_ErrorWhileStalled ==
  [][ \A code \in ErrorCodes :
        (SinkError(code) /\ PendingSends # {})
          => /\ S'.drainL = <<>> /\ S'.errorL = <<>>
             /\ IF code \in DisconnectCodes
                THEN /\ ~S'.isConnected /\ ~S'.heartbeatTimer
                     /\ S'.closeCallbacks = <<>>
                     /\ Len(S'.cbLog) = Len(S.cbLog) + Len(S.closeCallbacks)
                     /\ \A n \in PendingSends : calls'[n].out = "resolved"
                ELSE /\ S'.isConnected = S.isConnected
                     /\ S'.heartbeatTimer = S.heartbeatTimer
                     /\ S'.cbLog = S.cbLog /\ S'.closeCallbacks = S.closeCallbacks
                     /\ \A n \in PendingSends : calls'[n].out = "rejected" ]_vars

\* a stalled send resolved on an error that disconnected the context and
\* ran the registered callback; no drain ever came
C12_Witness ==
  /\ Len(calls) >= 1 /\ calls[1] = [op |-> "send", out |-> "resolved"]
  /\ S.sinkLog = << <<"msg", 1, 0>> >> /\ S.needDrain
  /\ S.sinkErrored /\ ~S.isConnected /\ Len(S.cbLog) = 1

\* C13: with a positive heartbeat interval the timer is armed as long as the
\* context is connected, and every firing of it on a connected context
\* appends exactly one heartbeat record to the sink; once close() has ended
\* the sink the timer is stopped and no heartbeat record is added any more.
C13_Heartbeat ==
  /\ []((effectiveInterval(options) > 0 /\ S.isConnected) => S.heartbeatTimer)
  /\ [](S.endCount > 0 => ~S.heartbeatTimer)
  /\ [][ (nticks' = nticks + 1 /\ S.isConnected)
           => S'.sinkLog = Append(S.sinkLog, <<"hb", 0, nticks + 1>>) ]_vars
  /\ [][ S.endCount > 0 => HeartbeatRecords(S') = HeartbeatRecords(S) ]_vars

\* an idle context wrote a heartbeat at each of two firings and was then
\* closed
C13_Witness ==
  /\ S.sinkLog = << <<"hb", 0, 1>>, <<"hb", 0, 2>> >>
  /\ calls = << [op |-> "close", out |-> "ok"] >> /\ S.endCount = 1

\* C14: when the plugin's heartbeatInterval is 0 or the route sets
\* heartbeat: false, the context has no heartbeat timer, the timer never
\* fires and no heartbeat record is ever in the sink.
C14_HeartbeatOff ==
  (options.heartbeatInterval = 0 \/ ~options.heartbeat)
    => (~S.heartbeatTimer /\ nticks = 0 /\ HeartbeatRecords(S) = <<>>)

\* the route switched the heartbeat off under a plugin interval of 30000,
\* the handler sent a message and returned with the connection kept open
C14_Witness ==
  /\ options = [heartbeatInterval |-> 30000, heartbeat |-> FALSE]
  /\ S.keepAlive /\ handler.st = "returned" /\ S.isConnected
  /\ Len(S.sinkLog) = 1

\* the source is none of the five accepted kinds
InvalidSource(src) ==
  /\ ~src.isString /\ ~src.isBuffer
  /\ ~(src.isObject /\ src.hasData)
  /\ ~src.isReadable /\ ~src.hasAsyncIterator

\* C15: on a connected context a send whose source is neither a string, a
\* buffer, an object with a data key, a Readable nor an async iterable fails
\* with the TypeError and changes nothing: no header block, no write, the
\* context as connected as before, no pipe or iteration started.
C15_InvalidSource ==
  [][ \A src \in Sources :
        (Send(src) /\ S.isConnected /\ InvalidSource(src))
          => /\ Returned = "TypeError"
             /\ S' = S
             /\ iter' = iter /\ pipe' = pipe /\ transform' = transform ]_vars

\* the first operation on the context was a send refused with the TypeError:
\* nothing is on the wire and a second send was written
C15_Witness ==
  /\ Len(calls) = 2
  /\ calls[1] = [op |-> "send", out |-> "TypeError"]
  /\ calls[2] = [op |-> "send", out |-> "resolved"]
  /\ S.sinkLog = << <<"msg", 2, 0>> >> /\ S.headCount = 1

\* C16: when an async iterable raises after yielding k items, those k items
\* are on the sink in order, the send fails with the source's error, and the
\* context is left as it was, connected if it was connected; a message sent
\* afterwards on the connected context is written to the sink.
C16_SourceError ==
  /\ [][ IterThrow =>
           /\ ItemsOf(S, iter.n) = [i \in 1..iter.k |-> <<"item", iter.n, i>>]
           /\ calls'[iter.n].out = "sourceError"
           /\ S' = S ]_vars
  /\ [][ ( /\ Send(MessageSource) /\ S.isConnected
           /\ \E i \in 1..Len(calls) : calls[i].out = "sourceError" )
           => /\ S'.sinkLog = Append(S.sinkLog, <<"msg", Len(calls) + 1, 0>>)
              /\ Returned \in {"resolved", "pending"} ]_vars

\* the iterable raised after its second item; the context is still connected
\* and the message sent afterwards follows the two items on the sink
C16_Witness ==
  /\ calls = << [op |-> "send", out |-> "sourceError"],
                [op |-> "send", out |-> "resolved"] >>
  /\ S.sinkLog = << <<"item", 1, 1>>, <<"item", 1, 2>>, <<"msg", 2, 0>> >>
  /\ S.isConnected

\* the records of the sends issued as calls number from + 1 .. to
RecordsOfCalls(s, from, to) ==
  {i \in 1..Len(s.sinkLog) :
     s.sinkLog[i][1] # "hb" /\ s.sinkLog[i][2] > from /\ s.sinkLog[i][2] <= to}

\* C17: each replay(callback) invokes the callback once, with the last event
\* id, when the context has one, and never when it has none; replay is
\* pending as long as its callback runs and settles only when the callback's
\* promise has; so the records sent inside the callback are on the sink
\* ahead of every record sent after replay returned.
C17_Replay ==
  /\ replay.invoked = (IF lastEventId = "null" THEN 0 ELSE replay.count)
  /\ replay.invoked > 0 => replay.arg = lastEventId
  /\ replay.cb = "running" <=> replay.out = "pending"
  /\ replay.cb = "settled" =>
        \A i \in RecordsOfCalls(S, replay.first, replay.last) :
          \A j \in RecordsOfCalls(S, replay.last, MaxCalls + 1) : i < j

\* Last-Event-ID: 1; the callback sent a two-item iterable and returned,
\* replay resolved, and the message sent afterwards follows the two items
C17_Witness ==
  /\ lastEventId = "1"
  /\ replay = [count |-> 1, invoked |-> 1, arg |-> "1", out |-> "resolved",
               cb |-> "settled", first |-> 0, last |-> 1]
  /\ S.sinkLog = << <<"item", 1, 1>>, <<"item", 1, 2>>, <<"msg", 2, 0>> >>

\* the callbacks of a log of invocations, in the order they were invoked
Invoked(log) == [i \in 1..Len(log) |-> log[i].cb]

\* C18: when a connected context closes (close(), the handler's automatic
\* close, the sink's 'close' or a disconnect error), the callbacks registered
\* until then are invoked in the order of their registration, each once.
C18_RegistrationOrder ==
  /\ [][ (S.isConnected /\ ~S'.isConnected)
           => /\ Invoked(S'.cbLog) = Invoked(S.cbLog) \o S.closeCallbacks
              /\ S'.closeCallbacks = <<>> ]_vars
  /\ [](\A i, j \in 1..Len(S.cbLog) : i < j => S.cbLog[i].cb.id < S.cbLog[j].cb.id)

\* two callbacks were registered, the context closed, and the first
\* registered was invoked first
C18_Witness ==
  /\ ~S.isConnected
  /\ Len(S.cbLog) = 2
  /\ S.cbLog[1].cb.id = 1 /\ S.cbLog[2].cb.id = 2

\* C19: close() on a connected context with a callback that throws still
\* invokes every registered callback, the ones after the thrower included,
\* ends the sink, and returns normally.
C19_ThrowingCallback ==
  [][ (Close /\ S.isConnected /\ firstThrower(S.closeCallbacks, 1) # 0)
        => /\ Invoked(S'.cbLog) = Invoked(S.cbLog) \o S.closeCallbacks
           /\ S'.endCount = S.endCount + 1
           /\ Returned = "ok" ]_vars

\* the first of two callbacks threw; the second was invoked, close() returned
\* and the sink is ended
C19_Witness ==
  /\ calls = << [op |-> "close", out |-> "ok"] >>
  /\ Len(S.cbLog) = 2
  /\ S.cbLog[1].cb.throws /\ ~S.cbLog[2].cb.throws
  /\ S.endCount = 1

\* C20: for a request whose Accept header does not contain text/event-stream
\* there is no context, no heartbeat timer and no timer firing, the raw
\* response holds none of the four event-stream headers, the reply's headers
\* are those the hooks and the handler set, and what the handler returns is
\* what sseHandler returns.
C20_Fallback ==
  /\ []( (\A i \in 1..Len(accept) : accept[i] # "text/event-stream")
           => /\ ~S.created /\ ~S.isConnected
              /\ ~S.heartbeatTimer /\ nticks = 0
              /\ \A r \in RequiredHeaders : S.rawHeaders[r[1]] # r[2]
              /\ nsets = 0 => S.replyHeaders \in PreHandlerHeaders
              /\ S.headCount = 0 /\ S.sinkLog = <<>> )
  /\ [][ \A v \in HandlerValues :
           FallbackReturn(v) => handler'.ret = v /\ handler'.st = "returned" /\ S' = S ]_vars

\* Accept: text/html; the handler returned a payload, which is the response
C20_Witness ==
  /\ accept = <<"text/html">>
  /\ handler.st = "returned" /\ handler.ret = "payload"
  /\ ~S.created /\ S.rawHeaders = NoHeaders

\* C21: when the sink emits 'close', or 'error' with ECONNRESET, EPIPE or
\* UND_ERR_ABORTED, whatever the handler is doing, the context is closed after
\* that step, the heartbeat timer is stopped and the registered callbacks
\* have run in order, with no close() call made, no send failing with the
\* error and the error not thrown as uncaught.
C21_ClientGone ==
  [][ (SinkClose \/ \E code \in DisconnectCodes : SinkError(code))
        => /\ ~S'.isConnected /\ ~S'.heartbeatTimer
           /\ Invoked(S'.cbLog) = Invoked(S.cbLog) \o S.closeCallbacks
           /\ S'.closeCallbacks = <<>>
           /\ Len(calls') = Len(calls)
           /\ \A n \in 1..Len(calls) : calls'[n].out = "rejected" => calls[n].out = "rejected"
           /\ ~S'.uncaught ]_vars

\* the handler returned with keepAlive, a message was sent, and then the
\* sink reported an error: the context is closed and the callback has run
C21_Witness ==
  /\ handler.st = "returned" /\ S.keepAlive
  /\ calls = << [op |-> "keepAlive", out |-> "ok"], [op |-> "send", out |-> "resolved"] >>
  /\ S.sinkErrored /\ ~S.isConnected /\ ~S.heartbeatTimer
  /\ Len(S.cbLog) = 1 /\ S.endCount = 0

\* C22: when the pipe of a send(Readable) fails, by its source or by the
\* sink, with ECONNRESET, EPIPE or UND_ERR_ABORTED, the context is
\* disconnected, cleanup has run and the send returns normally; with any
\* other code the send fails with that error.
C22_PipeFailure ==
  [][ \A code \in ErrorCodes :
        (pipe.st = "piping" /\ (PipeSourceError(code) \/ SinkError(code)))
          => IF code \in DisconnectCodes
             THEN /\ ~S'.isConnected
                  /\ ~S'.heartbeatTimer /\ S'.closeCallbacks = <<>>
                  /\ calls'[pipe.n].out = "resolved"
             ELSE calls'[pipe.n].out = "rejected" ]_vars

\* the source of a pipe failed with a disconnect code after one chunk: the
\* send resolved and the context is disconnected
C22_Witness ==
  /\ calls = << [op |-> "send", out |-> "resolved"] >>
  /\ pipe.st = "done" /\ pipe.k = 1
  /\ ~S.isConnected /\ ~S.heartbeatTimer
  /\ ~S.sinkErrored /\ ~S.sinkClosed /\ handler.st = "running"

\* C23: when the stream given to send ends, the send resolves and the sink is
\* left as it is, not ended; the context stays connected with its timer
\* armed, and a message sent or a heartbeat fired after that is appended to
\* the sink.
C23_StreamEnd ==
  /\ [][ PipeEnd => S' = S /\ calls'[pipe.n].out = "resolved" ]_vars
  /\ [](pipe.st = "done" => S.endCount = 0 /\ S.isConnected /\ S.heartbeatTimer)
  /\ [][ (pipe.st = "done" /\ Send(MessageSource))
           => S'.sinkLog = Append(S.sinkLog, <<"msg", Len(calls) + 1, 0>>) ]_vars
  /\ [][ (pipe.st = "done" /\ Tick)
           => S'.sinkLog = Append(S.sinkLog, <<"hb", 0, nticks + 1>>) ]_vars

\* a stream of two chunks ended; a heartbeat and then a message followed
C23_Witness ==
  /\ calls = << [op |-> "send", out |-> "resolved"], [op |-> "send", out |-> "resolved"] >>
  /\ S.sinkLog = << <<"chunk", 1, 1>>, <<"chunk", 1, 2>>, <<"hb", 0, 1>>, <<"msg", 2, 0>> >>
  /\ S.endCount = 0 /\ S.isConnected

\* the lines of an encoded record: the text before each LF, and what follows
\* the last one
Lines(payload) == split(payload)

FieldPrefixes == {"id: ", "event: ", "data: ", "retry: "}

\* the place of a line in the order id, event, data, retry
Rank(line) ==
  CASE line = <<>> -> 5
    [] Head(line) = "id: " -> 1
    [] Head(line) = "event: " -> 2
    [] Head(line) = "data: " -> 3
    [] Head(line) = "retry: " -> 4
    [] OTHER -> 0

\* the lines of `ls` that start with `prefix`
LinesWith(ls, prefix) == SelectSeq(ls, LAMBDA l : l # <<>> /\ Head(l) = prefix)

\* the encoder was given a Message: an object whose data is set
EncodedMessage == enc.st = "done" /\ enc.message.type = "object" /\ enc.message.data.kind # "undefined"

\* C24: the record of a Message is a run of field lines followed by one blank
\* line and nothing else; the field lines come in the order id, event, data,
\* retry; there is one id line, with the id, when the id is truthy and none
\* otherwise, and the same for event and retry (no retry line for retry 0);
\* there is at least one data line.
C24_FieldOrder ==
  EncodedMessage =>
    LET ls == Lines(enc.payload)
        n == Len(ls)
        msg == enc.message
    IN /\ n >= 3 /\ ls[n] = <<>> /\ ls[n - 1] = <<>>
       /\ \A i \in 1..(n - 2) : ls[i] # <<>> /\ Head(ls[i]) \in FieldPrefixes
       /\ \A i, j \in 1..(n - 2) : i < j => Rank(ls[i]) <= Rank(ls[j])
       /\ LinesWith(ls, "id: ") =
            (IF truthy(msg.id) THEN << <<"id: ">> \o toText(msg.id) >> ELSE <<>>)
       /\ LinesWith(ls, "event: ") =
            (IF truthy(msg.event) THEN << <<"event: ">> \o toText(msg.event) >> ELSE <<>>)
       /\ LinesWith(ls, "retry: ") =
            (IF msg.retry.kind = "number" /\ msg.retry.num # 0
             THEN << <<"retry: ">> \o digits(msg.retry.num) >> ELSE <<>>)
       /\ LinesWith(ls, "data: ") # <<>>

\* { id: 'x', event: 'x', data: {}, retry: 1000 } under JSON.stringify
C24_Witness ==
  /\ enc.st = "done" /\ enc.serializer = "JSON.stringify"
  /\ enc.message = Message(Str(<<"x">>), Str(<<"x">>), Obj, Num(1000))
  /\ enc.payload = << "id: ", "x", LF, "event: ", "x", LF, "data: ", "{", "}", LF,
                      "retry: ", "1", "0", "0", "0", LF, LF >>

\* the texts of `segments` put together again with line breaks between them
RECURSIVE Join(_)
Join(segments) ==
  IF Len(segments) = 1 THEN segments[1]
  ELSE segments[1] \o <<LF>> \o Join(Tail(segments))

\* what a line holds after its field prefix
Contents(ls) == [i \in 1..Len(ls) |-> Tail(ls[i])]

\* the encoder was given a string or a buffer
EncodedRaw == enc.st = "done" /\ enc.message.type \in {"string", "buffer"}

\* C25: a string or buffer payload is encoded as data lines only, one per
\* line of the text, followed by one blank line; the lines hold the text
\* itself, nothing added or quoted, whatever the serializer. The data of a
\* Message is what the serializer makes of it: send('x') gives 'data: x' and
\* a blank line, { data: 'x' } gives 'data: "x"' and a blank line under
\* JSON.stringify.
C25_RawNotSerialized ==
  /\ EncodedRaw =>
       LET ls == Lines(enc.payload)
           n == Len(ls)
           text == IF enc.message.type = "string" THEN enc.message.text
                   ELSE bufferToString(enc.message.text)
       IN /\ n >= 3 /\ ls[n] = <<>> /\ ls[n - 1] = <<>>
          /\ \A i \in 1..(n - 2) : ls[i] # <<>> /\ Head(ls[i]) = "data: "
          /\ Join(Contents(SubSeq(ls, 1, n - 2))) = text
          /\ \A serializer \in Serializers :
               formatSSEMessage(enc.message, serializer) = enc.payload
  /\ EncodedMessage =>
       Join(Contents(LinesWith(Lines(enc.payload), "data: ")))
         = serialize(enc.serializer, enc.message.data)
  /\ (enc.st = "done" /\ enc.message = StringPayload(<<"x">>))
       => enc.payload = << "data: ", "x", LF, LF >>
  /\ ( /\ enc.st = "done" /\ enc.serializer = "JSON.stringify"
       /\ enc.message = Message(Undefined, Undefined, Str(<<"x">>), Undefined) )
       => enc.payload = << "data: ", QUOTE, "x", QUOTE, LF, LF >>

\* a string with a quote and a line break, encoded as two plain data lines
C25_Witness ==
  /\ enc.st = "done"
  /\ enc.message = StringPayload(<<QUOTE, "x", LF, "x">>)
  /\ enc.payload = << "data: ", QUOTE, "x", LF, "data: ", "x", LF, LF >>

\* { data: 'x\nx\nx' }: a Message with only a data string of three lines
ThreeLineMessage ==
  Message(Undefined, Undefined, Str(<<"x", LF, "x", LF, "x">>), Undefined)

\* C26 as stated: the record of a Message whose data is a string with two
\* line breaks has three data lines.
C26_ThreeDataLines ==
  (enc.st = "done" /\ enc.message = ThreeLineMessage)
    => Len(LinesWith(Lines(enc.payload), "data: ")) = 3

\* C26 amended: the record of a Message has one data line per line of the
\* serializer's output. For the data string of three lines that is three
\* data lines, one per segment, under a serializer that returns the string
\* as it is, and a single data line under JSON.stringify, which escapes the
\* line breaks; a blank line follows.
C26_DataLinesOfSerialized ==
  /\ EncodedMessage =>
       Len(LinesWith(Lines(enc.payload), "data: "))
         = Len(split(serialize(enc.serializer, enc.message.data)))
  /\ (EncodedMessage /\ enc.serializer = "JSON.stringify")
       => Len(LinesWith(Lines(enc.payload), "data: ")) = 1
  /\ (enc.st = "done" /\ enc.message = ThreeLineMessage /\ enc.serializer = "String")
       => Lines(enc.payload) =
            << <<"data: ", "x">>, <<"data: ", "x">>, <<"data: ", "x">>, <<>>, <<>> >>
  /\ (enc.st = "done" /\ enc.message = ThreeLineMessage /\ enc.serializer = "JSON.stringify")
       => Lines(enc.payload) =
            << <<"data: ", QUOTE, "x", BSL, "n", "x", BSL, "n", "x", QUOTE>>, <<>>, <<>> >>

\* the data string of three lines was encoded under JSON.stringify
C26_Witness ==
  /\ enc.st = "done" /\ enc.serializer = "JSON.stringify"
  /\ enc.message = ThreeLineMessage
  /\ Len(LinesWith(Lines(enc.payload), "data: ")) = 1

\* C27 as stated: every 'error' of the sink, whatever its code, closes a
\* connected context.
C27_AnyErrorCloses ==
  [][ \A code \in ErrorCodes :
        (SinkError(code) /\ S.isConnected) => ~S'.isConnected ]_vars

\* C27 amended: an 'error' of the sink with ECONNRESET, EPIPE or
\* UND_ERR_ABORTED closes a connected context and cleanup runs (timer
\* stopped, callbacks run and forgotten); an 'error' with any other code
\* leaves the context connected, its timer and its callbacks as they were.
C27_DisconnectErrorCloses ==
  [][ \A code \in ErrorCodes :
        (SinkError(code) /\ S.isConnected)
          => IF code \in DisconnectCodes
             THEN /\ ~S'.isConnected /\ ~S'.heartbeatTimer
                  /\ Invoked(S'.cbLog) = Invoked(S.cbLog) \o S.closeCallbacks
                  /\ S'.closeCallbacks = <<>>
             ELSE /\ S'.isConnected
                  /\ S'.heartbeatTimer = S.heartbeatTimer
                  /\ S'.cbLog = S.cbLog /\ S'.closeCallbacks = S.closeCallbacks
                  /\ S'.endCount = S.endCount ]_vars

\* the sink reported an error that is not a disconnect: the context is still
\* connected, the timer armed and the callback not run
C27_Witness ==
  /\ S.sinkErrored /\ S.isConnected /\ S.heartbeatTimer
  /\ Len(S.closeCallbacks) = 1 /\ S.cbLog = <<>>

\* C28: no step turns isConnected from false to true, keepAlive from true to
\* false or headersSent from true to false, and no step changes lastEventId.
C28_Monotonic ==
  [][ /\ ~S.isConnected => ~S'.isConnected
      /\ S.keepAlive => S'.keepAlive
      /\ S.headersSent => S'.headersSent
      /\ lastEventId' = lastEventId ]_vars

\* Last-Event-ID: 1; keepAlive was called twice and the context has sent
\* its headers and is closed
C28_Witness ==
  /\ lastEventId = "1"
  /\ calls = << [op |-> "keepAlive", out |-> "ok"], [op |-> "keepAlive", out |-> "ok"] >>
  /\ S.keepAlive /\ S.headersSent /\ ~S.isConnected

\* C29: nothing is on the sink before the status line and the header block:
\* as long as the block was not transmitted the sink holds no record, and
\* the step that puts the first record there (a message, an item, a piped
\* chunk, the output of a transform, a heartbeat) has transmitted the block,
\* once.
C29_HeadersFirst ==
  /\ [](S.headCount = 0 => S.sinkLog = <<>>)
  /\ [](S.sinkLog # <<>> => S.headersSent /\ S.headBlock.status = 200)
  /\ [][ (S.sinkLog = <<>> /\ S'.sinkLog # <<>>) => S'.headCount = 1 ]_vars

\* the first bytes on the sink were a heartbeat; the header block went
\* ahead of it
C29_Witness ==
  /\ Len(S.sinkLog) = 2
  /\ S.sinkLog[1] = <<"hb", 0, 1>> /\ S.sinkLog[2][1] = "chunk"
  /\ S.headCount = 1

\* C30: a message send on a connected context resolves at once when write()
\* returned true and is pending when it returned false; a pending send stays
\* pending until the sink emits 'drain' or 'error', and 'drain' resolves it.
C30_Backpressure ==
  /\ [][ (Send(MessageSource) /\ S.isConnected)
           => Returned = (IF S'.needDrain THEN "pending" ELSE "resolved") ]_vars
  /\ [][ (\E n \in PendingSends : calls'[n].out # "pending")
           => (Drain \/ \E code \in ErrorCodes : SinkError(code)) ]_vars
  /\ [][ Drain => \A n \in PendingSends : calls'[n].out = "resolved" ]_vars

\* the first send was accepted at once, the second waits for 'drain'
C30_Witness ==
  /\ calls = << [op |-> "send", out |-> "resolved"], [op |-> "send", out |-> "pending"] >>
  /\ S.needDrain /\ S.drainL = << <<2, 0>> >>
  /\ S.sinkLog = << <<"msg", 1, 0>>, <<"msg", 2, 0>> >>
  /\ S.isConnected

\* the writes suspended on backpressure: the sends of a message that are
\* pending, and the item an iteration is waiting to have written
SuspendedWrites ==
  {<<n, 0>> : n \in PendingSends}
    \cup (IF iter.st = "writing" THEN {<<iter.n, iter.k>>} ELSE {})

\* the writes of a sequence of listeners
Owners(ls) == {ls[i] : i \in 1..Len(ls)}

\* C31: the 'drain' and 'error' listeners attached by writeToStream are
\* those of the writes suspended on backpressure, one pair each: a write that
\* has settled, by 'drain' or by 'error', has neither listener left on the
\* sink.
C31_ListenerPairs ==
  /\ Owners(S.drainL) = SuspendedWrites
  /\ Owners(S.errorL) = SuspendedWrites
  /\ Len(S.drainL) = Cardinality(SuspendedWrites)
  /\ Len(S.errorL) = Cardinality(SuspendedWrites)

\* a stalled send was rejected by an 'error' of the sink and a second one is
\* stalled now: the only listeners on the sink are those of the second
C31_Witness ==
  /\ Len(calls) = 2
  /\ calls[1] = [op |-> "send", out |-> "rejected"]
  /\ calls[2] = [op |-> "send", out |-> "pending"]
  /\ S.drainL = << <<2, 0>> >> /\ S.errorL = << <<2, 0>> >>
  /\ S.isConnected /\ S.sinkErrored

\* C32: a context that is closed has no heartbeat timer armed, whichever way
\* it was closed: close(), the sink's 'close', a disconnect error of the sink
\* with or without a write suspended, a disconnect during a pipe; and the step
\* that closes it is the one that stops the timer.
C32_NoTimerWhenClosed ==
  /\ []((S.created /\ ~S.isConnected) => ~S.heartbeatTimer)
  /\ [][ (S.isConnected /\ ~S'.isConnected) => (S.heartbeatTimer /\ ~S'.heartbeatTimer) ]_vars

\* the handler returned with keepAlive and the source of a pipe then failed
\* with a disconnect code: the context is closed and the timer stopped
C32_Witness ==
  /\ calls = << [op |-> "keepAlive", out |-> "ok"], [op |-> "send", out |-> "resolved"] >>
  /\ handler.st = "returned" /\ pipe.st = "done"
  /\ ~S.sinkErrored /\ ~S.sinkClosed /\ S.endCount = 0
  /\ ~S.isConnected /\ ~S.heartbeatTimer

\* the step is a close() of a connected context, called by the handler or by
\* sseHandler at the end of a handler that did not call keepAlive()
ClosesByClose ==
  /\ S.isConnected
  /\ IsCall({"close"}) \/ (HandlerEnds /\ ~S.keepAlive)

\* C33: close() marks the context disconnected, stops the heartbeat, runs
\* the callbacks and then ends the sink: every callback run by close() sees
\* the context disconnected, the timer stopped and the sink not yet ended,
\* and when close() returns the sink is ended.
C33_CloseOrder ==
  [][ ClosesByClose =>
        /\ Len(S'.cbLog) = Len(S.cbLog) + Len(S.closeCallbacks)
        /\ \A i \in (Len(S.cbLog) + 1)..Len(S'.cbLog) :
             /\ ~S'.cbLog[i].connected
             /\ ~S'.cbLog[i].timer
             /\ ~S'.cbLog[i].ended
        /\ S.endCount = 0 /\ S'.endCount = 1
        /\ ~S'.isConnected /\ ~S'.heartbeatTimer ]_vars

\* close() ran two callbacks, neither of which throws; both saw the context
\* disconnected and the sink open, and the sink is ended now
C33_Witness ==
  /\ calls = << [op |-> "close", out |-> "ok"] >>
  /\ Len(S.cbLog) = 2
  /\ \A i \in 1..2 : ~S.cbLog[i].cb.throws /\ ~S.cbLog[i].connected /\ ~S.cbLog[i].ended
  /\ S.endCount = 1 /\ handler.st = "running"

\* C34: a firing of the heartbeat timer on a connected context with a write
\* suspended on backpressure hands its record to the sink in that very step,
\* after everything written so far; it attaches no listener, and the
\* suspended writes stay as they are, still waiting for 'drain'.
C34_HeartbeatBypasses ==
  [][ (Tick /\ S.isConnected /\ SuspendedWrites # {})
        => /\ S'.sinkLog = Append(S.sinkLog, <<"hb", 0, nticks + 1>>)
           /\ S'.drainL = S.drainL /\ S'.errorL = S.errorL
           /\ S'.needDrain
           /\ calls' = calls ]_vars

\* a send is suspended and the heartbeat record is on the sink behind its
\* message; no 'drain' has come
C34_Witness ==
  /\ calls = << [op |-> "send", out |-> "pending"] >>
  /\ S.sinkLog = << <<"msg", 1, 0>>, <<"hb", 0, 1>> >>
  /\ S.drainL = << <<1, 0>> >> /\ S.needDrain /\ S.isConnected

\* how many times callback number id was invoked
TimesInvoked(s, id) == Cardinality({i \in 1..Len(s.cbLog) : s.cbLog[i].cb.id = id})

\* C35: however close(), the sink's 'close', the sink's errors, the
\* disconnect handling of a suspended write and that of a pipe interleave,
\* no registered callback is invoked more than once: a callback that was
\* invoked is no longer registered, and a step invokes only callbacks that
\* were registered and not yet invoked.
C35_AtMostOnce ==
  /\ [](\A id \in 1..(MaxCallbacks + 1) : TimesInvoked(S, id) <= 1)
  /\ [](\A i \in 1..Len(S.closeCallbacks) : TimesInvoked(S, S.closeCallbacks[i].id) = 0)
  /\ [][ \A id \in 1..(MaxCallbacks + 1) :
            TimesInvoked(S', id) > TimesInvoked(S, id)
              => \E i \in 1..Len(S.closeCallbacks) : S.closeCallbacks[i].id = id ]_vars

\* a disconnect error reached a context with a suspended write, so that the
\* listener of the context and that of the write both ran cleanup, and the
\* sink reported 'close' afterwards: the callback was invoked once
C35_Witness ==
  /\ calls = << [op |-> "send", out |-> "resolved"] >>
  /\ S.needDrain /\ S.sinkErrored /\ S.sinkClosed
  /\ Len(S.cbLog) = 1 /\ S.closeCallbacks = <<>>

\* C36: a send suspended on backpressure on a context that is closed, by
\* close(), by the sink's 'close' or by an error of the sink, settles
\* eventually, and then none of its listeners is left on the sink.
C36_SettlesOnceClosed ==
  (PendingSends # {} /\ ~S.isConnected)
    ~> (PendingSends = {} /\ S.drainL = <<>> /\ S.errorL = <<>>)

\* C37: a context that is closed has a sink that was ended by close() or
\* that has itself reported 'close' or an error; a pipe whose source fails
\* with ECONNRESET, EPIPE or UND_ERR_ABORTED does not leave the context closed
\* on a sink that is open and that close() no longer ends.
C37_ClosedSinkFinished ==
  (S.created /\ ~S.isConnected) => SinkFinished(S)

\* C38: when close() ends the sink, the context has transmitted the status
\* line and the header block by sendHeaders(): headersSent is true, and the
\* block holds every header set on the reply until then, also when nothing
\* was sent before the close.
C38_HeadersBeforeEnd ==
  [][ (ClosesByClose /\ S'.endCount = S.endCount + 1)
        => /\ S'.headersSent /\ S'.headCount = 1
           /\ \A n \in HeaderNames :
                S.replyHeaders[n] # "" => S'.headBlock.headers[n] = S.replyHeaders[n] ]_vars

\* C39: a write into a transform of stream() on a context that has been
\* closed since transmits no header block and hands nothing to the sink.
C39_TransformAfterClose ==
  [][ (IsCall({"transform.write"}) /\ ~S.isConnected)
        => /\ S'.headCount = S.headCount /\ S'.headersSent = S.headersSent
           /\ S'.sinkLog = S.sinkLog /\ S'.lateWrites = S.lateWrites ]_vars

\* callback number id is registered and waits to be invoked
Registered(s, id) == \E i \in 1..Len(s.closeCallbacks) : s.closeCallbacks[i].id = id

\* C40: every callback registered with onClose(), on a connected context or
\* on one that is closed already, is invoked in the end, and once only.
C40_EventuallyOnce ==
  /\ \A id \in 1..MaxCallbacks : Registered(S, id) ~> (TimesInvoked(S, id) = 1)
  /\ [](\A id \in 1..MaxCallbacks : TimesInvoked(S, id) <= 1)

====
